---- MODULE Spec2Model ----
(***************************************************************************)
(* Model of janelas_moveis_rentabilidade: the comparative performance      *)
(* engine of comparacao_ativos.py (superation detection, percentage         *)
(* variation, rolling-window return), its fetch and currency conversion,    *)
(* and the rate-series retrieval of renda_fixa_br.py (paginated fetch,      *)
(* file cache, obter_cdi, obter_poupanca).                                  *)
(*                                                                         *)
(* Each part of the program has its own specification over its own group   *)
(* of variables; the variables of the other parts stay at their idle       *)
(* values.                                                                  *)
(*   SpecSup  encontrar_janelas_superacao / encontrar_periodos_superacao   *)
(*   SpecVar  calcular_variacao_percentual / calcular_retorno_janela       *)
(*   SpecRf   RendaFixaBR.obter_cdi with _buscar_serie_bcb, _salvar_cache, *)
(*            _carregar_cache and _cache_valido                             *)
(*   SpecPoup RendaFixaBR.obter_poupanca with _buscar_serie_bcb            *)
(*   SpecAtv  obter_dados_ativo (SpecAtvJusta: with weak fairness)         *)
(*   SpecBrl  converter_usd_para_brl                                       *)
(*   SpecSalvar  one or two processes running RendaFixaBR._salvar_cache    *)
(*   SpecOrq  plotar_comparacao / plotar_analise_janelas                   *)
(* Spec is the program as a whole: any one of the parts runs.              *)
(***************************************************************************)
EXTENDS Integers, Sequences, FiniteSets, TLC

(***************************************************************************)
(* Bounds of the model.                                                    *)
(***************************************************************************)
\* dates of the two series handed to superation detection are 1..NDatas
NDatas == 3
\* values of those series are 0..MaxVal
MaxVal == 1
\* the price series handed to the variation and return functions have 0..MaxLen rows
MaxLen == 23
\* their closes are 0..MaxClose
MaxClose == 2
\* calcular_retorno_janela is called with janela_meses in 1..MaxMeses
MaxMeses == 1
\* the days of the rate series and of the requested ranges are 0..MaxDia
MaxDia == 3
\* width in days of one segment of the paginated fetch: 365 * janela_anos
\* (renda_fixa_br.py 59, 67) on the scale of MaxDia
DiasFatia == 2
\* the clock runs over the days 0..MaxAgora
MaxAgora == 7
\* the DataFrames yf.download returns have 0..MaxLinhas rows
MaxLinhas == 2
\* a process that runs alone calls _salvar_cache up to MaxSalvos times
MaxSalvos == 2

(***************************************************************************)
(* Python values.                                                          *)
(***************************************************************************)
\* None (inicio_idx = None, inicio = None); dates and indices are >= 0
None == -1
\* NaN, the value of a date one of the series has no observation for: the
\* DataFrame built from both series holds NaN there and dropna() removes it
NaN == -2

VARIABLES
    \* ---- superation detection (SpecSup) ----
    forma,          \* "janelas" | "periodos": which of the two functions runs
    retornos1,      \* first argument: date -> value or NaN
    retornos2,      \* second argument: date -> value or NaN
    i,              \* enumerate() index of the loop, 0-based
    em_superacao,   \* encontrar_janelas_superacao: em_superacao
    inicio_idx,     \* encontrar_janelas_superacao: inicio_idx (None or index)
    inicio,         \* encontrar_periodos_superacao: inicio (None or date)
    saida,          \* janelas / periodos: the list being built and returned
    pc,             \* "chamada" | "laco" | "retornou" | "ocioso"
    \* ---- percentage variation and rolling-window return (SpecVar) ----
    funcao,         \* "variacao" | "retorno": which of the two functions runs
    dados,          \* argument: [tem_close, datas, close], the DataFrame
    janela_meses,   \* argument of calcular_retorno_janela
    ri,             \* calcular_retorno_janela: loop variable i
    retornos,       \* calcular_retorno_janela: retornos
    datas,          \* calcular_retorno_janela: datas
    resultado,      \* the Series returned: [datas, valores]
    erro,           \* the exception raised, "" when none
    vpc,            \* "chamada" | "laco" | "retornou" | "erro" | "ocioso"
    \* ---- rate-series retrieval and its cache (SpecRf) ----
    serie_bcb,      \* the upstream source: the days it has an observation for
    arquivos,       \* cache_dir: series name -> [existe, linhas] of <name>.csv
    timestamps,     \* ultima_atualizacao.json: series name -> instant or None
    agora,          \* datetime.now(), in whole days
    cpc,            \* "ocioso" | "buscando" | "apos_busca" | "retornou"
    data_inicio,    \* obter_cdi: argument
    data_fim,       \* obter_cdi: argument
    cache_valido,   \* obter_cdi: cache_valido
    modo,           \* obter_cdi: branch taken, "cache" | "incremental" | "completo"
    dados_cache,    \* obter_cdi: dados_cache (<<>> for None and for empty)
    retorno,        \* obter_cdi: [estado, serie], the outcome of the call
    repetida,       \* this call repeats the arguments of the call before it
    anterior,       \* the outcome of the call before a repeated call
    b_inicio,       \* _buscar_serie_bcb: argument data_inicio
    b_fim,          \* _buscar_serie_bcb: argument data_fim
    data_atual,     \* _buscar_serie_bcb: data_atual
    todos_dados,    \* _buscar_serie_bcb: todos_dados
    pedidos,        \* the segments requested: [inicio, fim, desfecho, tentativas]
    falhou,         \* a segment of this call gave no usable response
    novos_dados,    \* the DataFrame _buscar_serie_bcb returned
    \* ---- obter_dados_ativo (SpecAtv) ----
    ticker,         \* argument: the identifier
    RENDA_FIXA_DISPONIVEL,  \* module flag set by the import of renda_fixa_br
    tentativa,      \* loop variable of the retry loop, 0-based
    ultimo_erro,    \* ultimo_erro: None or the text of the last exception
    eventos,        \* the remote queries and sleeps so far, in order
    respostas,      \* what each remote query met, in order
    a_retorno,      \* [estado, dados, mensagem]: the outcome of the call
    apc,            \* "chamada" | "laco" | "esgotou" | "retornou" | "erro" | "ocioso"
    \* ---- converter_usd_para_brl (SpecBrl) ----
    dados_usd,      \* argument: the DataFrame [datas, colunas]
    fonte_cambio,   \* what the exchange-rate source answers: [historico, atual]
    cambio,         \* cambio: the response to the query of the range
    cambio_atual,   \* cambio_atual: the response to the query of period='1d'
    consultas,      \* the queries made to the exchange-rate source, in order
    retorno_brl,    \* [estado, dados]: the outcome of the call
    bpc,            \* "chamada" | "taxa_fixa" | "retornou" | "erro" | "ocioso"
    \* ---- obter_poupanca (SpecPoup), with the variables of the fetch ----
    fontes,         \* the upstream sources of SELIC and TR: code -> days observed
    serie_codigo,   \* _buscar_serie_bcb: argument serie_codigo
    selic,          \* obter_poupanca: selic
    tr,             \* obter_poupanca: tr
    poupanca,       \* [estado, linhas]: the outcome of the call
    ppc,            \* "chamada" | "selic" | "tr" | "retornou" | "erro" | "ocioso"
    \* ---- processes running _salvar_cache (SpecSalvar) ----
    concorrentes,   \* TRUE: two processes share the cache directory; FALSE: one
    spc,            \* process -> "ocioso" | "csv" | "ler" | "abrir" | "gravar" | "erro"
    s_nome,         \* process -> argument nome of its call
    s_df,           \* process -> argument df of its call
    s_local,        \* process -> its local variable timestamps
    restantes,      \* process -> calls of _salvar_cache it has yet to make
    historia,       \* the reads and writes of the index so far, in order
    gravado_em,     \* nome -> when the last call for nome wrote the index, or None
    truncado,       \* the index is open for writing and nothing is written yet
    \* ---- plotar_comparacao / plotar_analise_janelas (SpecOrq) ----
    o_modo,         \* "comparacao" | "janelas": which of the two functions runs
    ticker1,        \* argument ticker1
    ticker2,        \* argument ticker2
    passos,         \* the calls made so far, in order
    opc             \* position in the function, or "retornou" | "erro" | "ocioso"

supVars == <<forma, retornos1, retornos2, i, em_superacao, inicio_idx, inicio, saida, pc>>
varVars == <<funcao, dados, janela_meses, ri, retornos, datas, resultado, erro, vpc>>

rfVars == <<serie_bcb, arquivos, timestamps, agora, cpc, data_inicio, data_fim,
            cache_valido, modo, dados_cache, retorno, repetida, anterior,
            b_inicio, b_fim, data_atual, todos_dados, pedidos, falhou, novos_dados>>

atvVars == <<ticker, RENDA_FIXA_DISPONIVEL, tentativa, ultimo_erro, eventos,
             respostas, a_retorno, apc>>

brlVars == <<dados_usd, fonte_cambio, cambio, cambio_atual, consultas, retorno_brl, bpc>>

poupVars == <<fontes, serie_codigo, selic, tr, poupanca, ppc>>

salvarVars == <<concorrentes, spc, s_nome, s_df, s_local, restantes, historia,
                gravado_em, truncado>>

orqVars == <<o_modo, ticker1, ticker2, passos, opc>>

vars == <<supVars, varVars, rfVars, atvVars, brlVars, poupVars, salvarVars, orqVars>>

\* the values of a part of the program that is not running
SupOcioso ==
    /\ forma = "" /\ retornos1 = <<>> /\ retornos2 = <<>> /\ i = 0
    /\ em_superacao = FALSE /\ inicio_idx = None /\ inicio = None
    /\ saida = <<>> /\ pc = "ocioso"
VarOcioso ==
    /\ funcao = "" /\ dados = <<>> /\ janela_meses = 0 /\ ri = 0
    /\ retornos = <<>> /\ datas = <<>> /\ resultado = <<>> /\ erro = ""
    /\ vpc = "ocioso"

RfOcioso ==
    /\ serie_bcb = {} /\ arquivos = <<>> /\ timestamps = <<>> /\ agora = 0
    /\ cpc = "parado" /\ data_inicio = 0 /\ data_fim = 0
    /\ cache_valido = FALSE /\ modo = "" /\ dados_cache = <<>>
    /\ retorno = <<>> /\ repetida = FALSE /\ anterior = <<>>
    /\ b_inicio = 0 /\ b_fim = 0 /\ data_atual = 0 /\ todos_dados = <<>>
    /\ pedidos = <<>> /\ falhou = FALSE /\ novos_dados = <<>>

AtvOcioso ==
    /\ ticker = "" /\ RENDA_FIXA_DISPONIVEL = FALSE /\ tentativa = 0
    /\ ultimo_erro = <<>> /\ eventos = <<>> /\ respostas = <<>>
    /\ a_retorno = <<>> /\ apc = "ocioso"

BrlOcioso ==
    /\ dados_usd = <<>> /\ fonte_cambio = <<>> /\ cambio = <<>>
    /\ cambio_atual = <<>> /\ consultas = <<>> /\ retorno_brl = <<>>
    /\ bpc = "ocioso"

\* the codes of the series (renda_fixa_br.py 34-39)
CodigoCdi == 12
CodigoSelic == 432
CodigoTr == 226

\* obter_poupanca is not running: the fetches are those of obter_cdi
PoupOcioso ==
    /\ fontes = <<>> /\ serie_codigo = CodigoCdi /\ selic = <<>> /\ tr = <<>>
    /\ poupanca = <<>> /\ ppc = "ocioso"

\* no process is inside _salvar_cache on its own: the saves are those of obter_cdi
SalvarOcioso ==
    /\ concorrentes = FALSE /\ spc = <<>> /\ s_nome = <<>> /\ s_df = <<>>
    /\ s_local = <<>> /\ restantes = <<>> /\ historia = <<>> /\ gravado_em = <<>>
    /\ truncado = FALSE

OrqOcioso ==
    /\ o_modo = "" /\ ticker1 = "" /\ ticker2 = "" /\ passos = <<>>
    /\ opc = "ocioso"

foraSup == <<varVars, rfVars, atvVars, brlVars, poupVars, salvarVars, orqVars>>
foraVar == <<supVars, rfVars, atvVars, brlVars, poupVars, salvarVars, orqVars>>
foraRf == <<supVars, varVars, atvVars, brlVars, poupVars, salvarVars, orqVars>>
foraAtv == <<supVars, varVars, rfVars, brlVars, poupVars, salvarVars, orqVars>>
foraBrl == <<supVars, varVars, rfVars, atvVars, poupVars, salvarVars, orqVars>>
foraPoup == <<supVars, varVars, atvVars, brlVars, salvarVars, orqVars>>
\* _salvar_cache touches the files, the index and the clock only
foraSalvar == <<supVars, varVars, atvVars, brlVars, poupVars, orqVars,
                serie_bcb, cpc, data_inicio, data_fim, cache_valido, modo,
                dados_cache, retorno, repetida, anterior, b_inicio, b_fim,
                data_atual, todos_dados, pedidos, falhou, novos_dados>>
foraOrq == <<supVars, varVars, rfVars, atvVars, brlVars, poupVars, salvarVars>>

(***************************************************************************)
(* Superation detection: comparacao_ativos.py 245-342                      *)
(***************************************************************************)
Datas == 1..NDatas
Valores == 0..MaxVal
Series == [Datas -> Valores \cup {NaN}]

\* pd.DataFrame({'ativo1': s1, 'ativo2': s2}).dropna(): the rows, in ascending
\* date order, of the dates at which both series have a value
RECURSIVE AlinharAte(_, _, _)
AlinharAte(s1, s2, d) ==
    IF d = 0 THEN <<>>
    ELSE IF s1[d] # NaN /\ s2[d] # NaN
         THEN Append(AlinharAte(s1, s2, d - 1),
                     [data |-> d, ativo1 |-> s1[d], ativo2 |-> s2[d]])
         ELSE AlinharAte(s1, s2, d - 1)

Alinhar(s1, s2) == AlinharAte(s1, s2, NDatas)

retornos_alinhados == Alinhar(retornos1, retornos2)

\* superacao = retornos_alinhados['ativo2'] > retornos_alinhados['ativo1']
SuperacaoIgual(linha) == linha.ativo2 >= linha.ativo1
Superacao(linha) == linha.ativo2 > linha.ativo1

\* python index k (0-based, -1 = last) of the aligned frame
Iloc(al, k) == IF k < 0 THEN al[Len(al) + 1 + k] ELSE al[k + 1]

\* the tuple appended when a run is ended by the sample at index k (lines 285-289)
JanelaFechadaValoresAtuais(al, ini, k) ==
    <<Iloc(al, ini).data, Iloc(al, k).data, Iloc(al, k).ativo1, Iloc(al, k).ativo2>>
JanelaFechadaAteFinal(al, ini, k) ==
    <<Iloc(al, ini).data, Iloc(al, -1).data, Iloc(al, k - 1).ativo1, Iloc(al, k - 1).ativo2>>
JanelaFechada(al, ini, k) ==
    <<Iloc(al, ini).data, Iloc(al, k).data, Iloc(al, k - 1).ativo1, Iloc(al, k - 1).ativo2>>

\* the tuple appended for a run still open after the loop (lines 294-298)
JanelaAberta(al, ini) ==
    <<Iloc(al, ini).data, Iloc(al, -1).data, Iloc(al, -1).ativo1, Iloc(al, -1).ativo2>>

\* (inicio, fim, dias) of encontrar_periodos_superacao (lines 331-333, 338-340)
Periodo(ini, fim) == <<ini, fim, (fim - ini) + 1>>

InitSup ==
    /\ forma \in {"janelas", "periodos"}
    /\ retornos1 \in Series
    /\ retornos2 \in Series
    /\ i = 0
    /\ em_superacao = FALSE
    /\ inicio_idx = None
    /\ inicio = None
    /\ saida = <<>>
    /\ pc = "chamada"
    /\ VarOcioso
    /\ RfOcioso
    /\ AtvOcioso
    /\ BrlOcioso
    /\ PoupOcioso
    /\ SalvarOcioso
    /\ OrqOcioso

\* lines 257-273: align, return [] at once when the aligned frame is empty
JanelasChamada ==
    /\ pc = "chamada" /\ forma = "janelas"
    /\ pc' = IF retornos_alinhados = <<>> THEN "retornou" ELSE "laco"
    /\ UNCHANGED <<forma, retornos1, retornos2, i, em_superacao, inicio_idx, inicio, saida>>
    /\ UNCHANGED foraSup

\* lines 275-290: one iteration of the scan
JanelasIteracao ==
    /\ pc = "laco" /\ forma = "janelas"
    /\ i < Len(retornos_alinhados)
    /\ LET valor == Superacao(Iloc(retornos_alinhados, i)) IN
       IF valor /\ ~em_superacao
       THEN /\ em_superacao' = TRUE
            /\ inicio_idx' = i
            /\ saida' = saida
       ELSE IF ~valor /\ em_superacao
       THEN /\ em_superacao' = FALSE
            /\ saida' = IF inicio_idx # None
                        THEN Append(saida, JanelaFechada(retornos_alinhados, inicio_idx, i))
                        ELSE saida
            /\ inicio_idx' = None
       ELSE UNCHANGED <<em_superacao, inicio_idx, saida>>
    /\ i' = i + 1
    /\ UNCHANGED <<forma, retornos1, retornos2, inicio, pc>>
    /\ UNCHANGED foraSup

\* lines 292-300: close a run still open at the last observation, return
JanelasRetorno ==
    /\ pc = "laco" /\ forma = "janelas"
    /\ i = Len(retornos_alinhados)
    /\ saida' = IF em_superacao /\ inicio_idx # None
                THEN Append(saida, JanelaAberta(retornos_alinhados, inicio_idx))
                ELSE saida
    /\ pc' = "retornou"
    /\ UNCHANGED <<forma, retornos1, retornos2, i, em_superacao, inicio_idx, inicio>>
    /\ UNCHANGED foraSup

\* lines 313-323: align; there is no early return in this form
PeriodosChamada ==
    /\ pc = "chamada" /\ forma = "periodos"
    /\ pc' = "laco"
    /\ UNCHANGED <<forma, retornos1, retornos2, i, em_superacao, inicio_idx, inicio, saida>>
    /\ UNCHANGED foraSup

\* lines 325-334: one iteration of the scan
PeriodosIteracao ==
    /\ pc = "laco" /\ forma = "periodos"
    /\ i < Len(retornos_alinhados)
    /\ LET linha == Iloc(retornos_alinhados, i)
           valor == Superacao(linha) IN
       IF valor /\ inicio = None
       THEN /\ inicio' = linha.data
            /\ saida' = saida
       ELSE IF ~valor /\ inicio # None
       THEN /\ saida' = Append(saida, Periodo(inicio, Iloc(retornos_alinhados, i - 1).data))
            /\ inicio' = None
       ELSE UNCHANGED <<inicio, saida>>
    /\ i' = i + 1
    /\ UNCHANGED <<forma, retornos1, retornos2, em_superacao, inicio_idx, pc>>
    /\ UNCHANGED foraSup

\* lines 336-342: close a run still open at the last observation, return
PeriodosRetorno ==
    /\ pc = "laco" /\ forma = "periodos"
    /\ i = Len(retornos_alinhados)
    /\ saida' = IF inicio # None
                THEN Append(saida, Periodo(inicio, Iloc(retornos_alinhados, -1).data))
                ELSE saida
    /\ pc' = "retornou"
    /\ UNCHANGED <<forma, retornos1, retornos2, i, em_superacao, inicio_idx, inicio>>
    /\ UNCHANGED foraSup

NextSup ==
    \/ JanelasChamada
    \/ JanelasIteracao
    \/ JanelasRetorno
    \/ PeriodosChamada
    \/ PeriodosIteracao
    \/ PeriodosRetorno

SpecSup == InitSup /\ [][NextSup]_vars

(***************************************************************************)
(* Properties of superation detection, stated over the two input series.   *)
(***************************************************************************)
Max(S) == CHOOSE x \in S : \A y \in S : y <= x
Min(S) == CHOOSE x \in S : \A y \in S : x <= y

\* the dates both series have a value for
DatasAlinhadas == {d \in Datas : retornos1[d] # NaN /\ retornos2[d] # NaN}
\* B > A at the aligned sample of date d
Supera(d) == d \in DatasAlinhadas /\ retornos2[d] > retornos1[d]
\* d is the first date of a maximal run of aligned dates with B > A
IniciaSequencia(d) ==
    /\ Supera(d)
    /\ LET antes == {e \in DatasAlinhadas : e < d} IN antes = {} \/ ~Supera(Max(antes))
\* d is the last date of a maximal run of aligned dates with B > A
TerminaSequencia(d) ==
    /\ Supera(d)
    /\ LET depois == {e \in DatasAlinhadas : e > d} IN depois = {} \/ ~Supera(Min(depois))
\* the last date of the run that date d lies in
UltimaDaSequencia(d) == Min({e \in Datas : e >= d /\ TerminaSequencia(e)})

\* C1 (as claimed): in both forms, B > A holds at the aligned sample of the
\* start date and at the aligned sample of the end date of every interval
\* returned.
C1_PredicadoNasFronteiras ==
    pc = "retornou" =>
        \A k \in 1..Len(saida) : Supera(saida[k][1]) /\ Supera(saida[k][2])

\* C2: in both forms the intervals returned are listed in non-decreasing
\* start-date order and do not overlap: the end date of each is strictly
\* earlier than the start date of the next.
C2_OrdenadosSemSobreposicao ==
    pc = "retornou" =>
        \A k \in 1..(Len(saida) - 1) :
            /\ saida[k][1] <= saida[k + 1][1]
            /\ saida[k][2] < saida[k + 1][1]

C2_Witness == pc = "retornou" /\ Len(saida) >= 2

\* C3: every interval of encontrar_janelas_superacao reports the pair of
\* aligned values of the last sample inside its run; for a run still open at
\* the final observation that is the final aligned sample and the end date is
\* the last aligned date.
C3_ValoresDoUltimoPontoDaSequencia ==
    (pc = "retornou" /\ forma = "janelas") =>
        \A k \in 1..Len(saida) :
            /\ Supera(saida[k][1])
            /\ LET ultima == UltimaDaSequencia(saida[k][1]) IN
                /\ saida[k][3] = retornos1[ultima]
                /\ saida[k][4] = retornos2[ultima]
                /\ ultima = Max(DatasAlinhadas) => saida[k][2] = ultima

\* a closed run followed by a run still open at the last date
C3_Witness ==
    /\ pc = "retornou" /\ forma = "janelas"
    /\ Len(saida) = 2
    /\ saida[2][2] = Max(DatasAlinhadas)

\* C4: both forms return exactly one interval per maximal run of consecutive
\* aligned dates with B > A, starting at the first date of the run; ties and
\* dates present in one series only start nothing; an empty aligned join
\* returns the empty list.
C4_UmIntervaloPorSequencia ==
    pc = "retornou" =>
        /\ Len(saida) = Cardinality({d \in Datas : IniciaSequencia(d)})
        /\ {saida[k][1] : k \in 1..Len(saida)} = {d \in Datas : IniciaSequencia(d)}
        /\ DatasAlinhadas = {} => saida = <<>>

\* a tie, a date present in the first series only, and one run
C4_Witness ==
    /\ pc = "retornou"
    /\ Len(saida) = 1
    /\ \E d \in DatasAlinhadas : retornos1[d] = retornos2[d]
    /\ \E d \in Datas : retornos1[d] # NaN /\ retornos2[d] = NaN

\* the empty aligned join returns the empty list, in either form
C4_WitnessVazio == pc = "retornou" /\ DatasAlinhadas = {} /\ saida = <<>>

(***************************************************************************)
(* Percentage variation and rolling-window return:                         *)
(* comparacao_ativos.py 177-243                                            *)
(***************************************************************************)
\* trading days per month (line 229)
DiasPorMes == 21

\* the index of a price series: trading dates, five in a row, then a gap of two
DataDoIndice(j) == j + 2 * ((j - 1) \div 5)

\* the price series of the model: n rows, every close c but the close of row p,
\* which is z; with or without a 'Close' column
SerieDePrecos(tem, n, c, p, z) ==
    [tem_close |-> tem,
     datas |-> [j \in 1..n |-> DataDoIndice(j)],
     close |-> [j \in 1..n |-> IF j = p THEN z ELSE c]]

Entradas ==
    {SerieDePrecos(tem, n, c, p, z) :
        tem \in BOOLEAN, n \in 0..MaxLen, c \in 0..MaxClose, p \in 1..MaxLen, z \in 0..MaxClose}

\* floating-point values: a finite number num/den, NaN (0/0) or an infinity
Numero(n, d) == [tipo |-> "num", num |-> n, den |-> d]
NaoNumero == [tipo |-> "nan", num |-> 0, den |-> 0]
Infinito(sinal) == [tipo |-> "inf", num |-> sinal, den |-> 0]

\* ((x - preco_inicial) / preco_inicial) * 100 on a pandas Series (line 200):
\* numpy division, x/0 is NaN for x = 0 and an infinity otherwise
VariacaoSemBase(x, preco_inicial) ==
    IF preco_inicial # 0 THEN Numero(x * 100, preco_inicial)
    ELSE IF x = 0 THEN NaoNumero
    ELSE Infinito(IF x > 0 THEN 1 ELSE -1)
Variacao(x, preco_inicial) ==
    IF preco_inicial # 0 THEN Numero((x - preco_inicial) * 100, preco_inicial)
    ELSE IF x - preco_inicial = 0 THEN NaoNumero
    ELSE Infinito(IF x - preco_inicial > 0 THEN 1 ELSE -1)

\* ((preco_final - preco_inicial) / preco_inicial) * 100 on python floats
\* (line 237); the caller has excluded preco_inicial = 0, which raises
Retorno(preco_final, preco_inicial) ==
    Numero((preco_final - preco_inicial) * 100, preco_inicial)

\* the date a rolling return is keyed by (line 239)
DataDoRetornoInicioDaJanela(indice, k, dias_janela) == indice[k + 1]
DataDoRetorno(indice, k, dias_janela) == indice[k + dias_janela + 1]

\* range(len(coluna_close) - dias_janela) still has the value k (line 234)
NoIntervalo(k, n, dias_janela) == k < n - dias_janela

InitVar ==
    /\ funcao \in {"variacao", "retorno"}
    /\ dados \in Entradas
    /\ janela_meses \in 1..MaxMeses
    /\ ri = 0
    /\ retornos = <<>>
    /\ datas = <<>>
    /\ resultado = <<>>
    /\ erro = ""
    /\ vpc = "chamada"
    /\ SupOcioso
    /\ RfOcioso
    /\ AtvOcioso
    /\ BrlOcioso
    /\ PoupOcioso
    /\ SalvarOcioso
    /\ OrqOcioso

\* calcular_variacao_percentual, lines 188-204
CalcularVariacaoPercentual ==
    /\ vpc = "chamada" /\ funcao = "variacao"
    /\ IF ~dados.tem_close
       THEN \* line 204
            /\ erro' = "ValueError"
            /\ vpc' = "erro"
            /\ UNCHANGED resultado
       ELSE IF Len(dados.close) = 0
       THEN \* line 199: coluna_close.iloc[0] of an empty Series
            /\ erro' = "IndexError"
            /\ vpc' = "erro"
            /\ UNCHANGED resultado
       ELSE /\ LET preco_inicial == dados.close[1] IN
                resultado' = [datas |-> dados.datas,
                              valores |-> [j \in 1..Len(dados.close) |->
                                              Variacao(dados.close[j], preco_inicial)]]
            /\ vpc' = "retornou"
            /\ UNCHANGED erro
    /\ UNCHANGED <<funcao, dados, janela_meses, ri, retornos, datas>>
    /\ UNCHANGED foraVar

\* calcular_retorno_janela, lines 218-232 and 243
RetornoChamada ==
    /\ vpc = "chamada" /\ funcao = "retorno"
    /\ IF ~dados.tem_close
       THEN erro' = "ValueError" /\ vpc' = "erro"
       ELSE erro' = erro /\ vpc' = "laco"
    /\ UNCHANGED <<funcao, dados, janela_meses, ri, retornos, datas, resultado>>
    /\ UNCHANGED foraVar

\* one iteration of the loop, lines 234-239
RetornoIteracao ==
    /\ vpc = "laco"
    /\ LET dias_janela == janela_meses * DiasPorMes IN
        /\ NoIntervalo(ri, Len(dados.close), dias_janela)
        /\ LET preco_inicial == dados.close[ri + 1]
               preco_final == dados.close[ri + dias_janela + 1] IN
           IF preco_inicial = 0
           THEN \* float division by zero
                /\ erro' = "ZeroDivisionError"
                /\ vpc' = "erro"
                /\ UNCHANGED <<ri, retornos, datas>>
           ELSE /\ retornos' = Append(retornos, Retorno(preco_final, preco_inicial))
                /\ datas' = Append(datas, DataDoRetorno(dados.datas, ri, dias_janela))
                /\ ri' = ri + 1
                /\ UNCHANGED <<erro, vpc>>
    /\ UNCHANGED <<funcao, dados, janela_meses, resultado>>
    /\ UNCHANGED foraVar

\* the loop is over: return pd.Series(retornos, index=datas), line 241
RetornoRetorno ==
    /\ vpc = "laco"
    /\ ~NoIntervalo(ri, Len(dados.close), janela_meses * DiasPorMes)
    /\ resultado' = [datas |-> datas, valores |-> retornos]
    /\ vpc' = "retornou"
    /\ UNCHANGED <<funcao, dados, janela_meses, ri, retornos, datas, erro>>
    /\ UNCHANGED foraVar

NextVar ==
    \/ CalcularVariacaoPercentual
    \/ RetornoChamada
    \/ RetornoIteracao
    \/ RetornoRetorno

SpecVar == InitVar /\ [][NextVar]_vars

(***************************************************************************)
(* Properties of the variation and of the rolling-window return.           *)
(***************************************************************************)
EhZero(x) == x.tipo = "num" /\ x.num = 0

\* C5 (as claimed): for every series with at least one point, whatever its
\* first close, the variation at index 0 is exactly 0 and the result has the
\* dates of the input.
C5_VariacaoInicialZero ==
    (funcao = "variacao" /\ dados.tem_close /\ Len(dados.close) >= 1 /\ vpc # "chamada") =>
        /\ vpc = "retornou"
        /\ EhZero(resultado.valores[1])
        /\ resultado.datas = dados.datas

\* C5 (amended): for every series with at least one point the result has the
\* dates of the input; its value at index 0 is exactly 0 when the first close
\* is not 0, and NaN (0/0) when the first close is 0.
C5_VariacaoInicialZeroSeBaseNaoNula ==
    (funcao = "variacao" /\ dados.tem_close /\ Len(dados.close) >= 1 /\ vpc # "chamada") =>
        /\ vpc = "retornou"
        /\ resultado.datas = dados.datas
        /\ Len(resultado.valores) = Len(dados.close)
        /\ dados.close[1] # 0 => EhZero(resultado.valores[1])
        /\ dados.close[1] = 0 => resultado.valores[1] = NaoNumero

\* a series of several points that leaves its nonzero first close
C5_Witness ==
    /\ funcao = "variacao" /\ vpc = "retornou"
    /\ Len(dados.close) >= 2
    /\ dados.close[1] # 0
    /\ \E j \in 2..Len(dados.close) : ~EhZero(resultado.valores[j])

\* C6 (as claimed): calcular_variacao_percentual fails with the ValueError of
\* the missing 'Close' column both when there is no close field and when the
\* series has a close field and no rows.
C6_EntradaInvalidaDaValueError ==
    (funcao = "variacao" /\ vpc # "chamada" /\ (~dados.tem_close \/ Len(dados.close) = 0)) =>
        (vpc = "erro" /\ erro = "ValueError")

\* the number of rolling returns of a series of n rows
NumeroDeRetornos(n, m) == IF n - m * DiasPorMes > 0 THEN n - m * DiasPorMes ELSE 0

\* the rolling returns are keyed by the tail of the source dates, in order
ChavesSaoACaudaDasDatas ==
    /\ Len(resultado.valores) = NumeroDeRetornos(Len(dados.close), janela_meses)
    /\ Len(resultado.datas) = Len(resultado.valores)
    /\ \A k \in 1..Len(resultado.datas) :
           resultado.datas[k] = dados.datas[(k - 1) + janela_meses * DiasPorMes + 1]

\* C7 (as claimed): for every series and every m >= 1 calcular_retorno_janela
\* returns max(0, len - m*21) values, the k-th keyed by the source date at
\* index k + m*21, and returns the empty result without error when the
\* series is not longer than the window.
C7_TamanhoEChavesDoRetorno ==
    (funcao = "retorno" /\ dados.tem_close /\ vpc \in {"retornou", "erro"}) =>
        (vpc = "retornou" /\ ChavesSaoACaudaDasDatas)

\* a window of the series starts at a close of 0
JanelaComecaEmZero ==
    \E k \in 1..NumeroDeRetornos(Len(dados.close), janela_meses) : dados.close[k] = 0

\* C7 (amended): for every m >= 1 and every series none of whose first
\* len - m*21 closes is 0, calcular_retorno_janela returns max(0, len - m*21)
\* values, the k-th keyed by the source date at index k + m*21 (empty, without
\* error, when the series is not longer than the window); when one of those
\* closes is 0 it raises ZeroDivisionError and returns nothing.
C7_TamanhoEChavesSemPrecoZero ==
    (funcao = "retorno" /\ dados.tem_close /\ vpc \in {"retornou", "erro"}) =>
        /\ ~JanelaComecaEmZero => (vpc = "retornou" /\ ChavesSaoACaudaDasDatas)
        /\ JanelaComecaEmZero => (vpc = "erro" /\ erro = "ZeroDivisionError")

\* a series two rows longer than the window, with two returns
C7_Witness ==
    /\ funcao = "retorno" /\ vpc = "retornou"
    /\ Len(resultado.valores) = 2
    /\ ~EhZero(resultado.valores[2])

\* a series not longer than the window returns the empty result
C7_WitnessCurta ==
    /\ funcao = "retorno" /\ vpc = "retornou"
    /\ Len(dados.close) = DiasPorMes /\ resultado.valores = <<>>

(***************************************************************************)
(* Rate-series retrieval and its cache: renda_fixa_br.py 43-263            *)
(***************************************************************************)
\* timedelta(days=1): instants are counted in half days, so that a datetime
\* is a day and an hour of the day (0 = midnight, 1 = later that day)
UmDia == 2
Instante(dia, hora) == dia * UmDia + hora
\* the date of a datetime: strftime('%d/%m/%Y') (line 45), .date() (line 208)
DiaDe(t) == t \div UmDia

\* max_dias of _cache_valido (line 171)
max_dias == 7

\* the series names the cache holds
Nomes == {"cdi"}

Dias == 0..MaxDia
\* the upstream sources of the model: an observation on every day of a..b
SeriesBcb == {a..b : a \in Dias, b \in Dias}
\* the upstream sources of SELIC and TR of the model: SELIC observed on the
\* days a..b, TR on no day, on the odd days or on every day
FontesBcb ==
    {[c \in {CodigoSelic, CodigoTr} |-> IF c = CodigoSelic THEN S ELSE T] :
        S \in SeriesBcb, T \in {{}, {d \in Dias : d % 2 = 1}, Dias}}
\* the days the source has an observation of the series asked for
DiasDaSerie == IF serie_codigo = CodigoCdi THEN serie_bcb ELSE fontes[serie_codigo]
\* SELIC and TR of day d, in tenths of a percent a year: SELIC runs through
\* 8.0, 8.5 and 9.0, TR is 1.2 and up
TaxaSelic(d) == 80 + 5 * (d % 3)
TaxaTr(d) == 12 + d
\* the annual rate the upstream source reports for day d
Taxa(d) ==
    IF serie_codigo = CodigoSelic THEN TaxaSelic(d)
    ELSE IF serie_codigo = CodigoTr THEN TaxaTr(d)
    ELSE 10 + d

\* the arguments of obter_cdi: the callers pass a start before the end, both at
\* midnight (dates typed by the user), or an end of datetime.now() with a start
\* at midnight or at the same hour of an earlier day
ArgumentosValidos ==
    {<<Instante(q[1], q[2]), Instante(q[3], q[4])>> :
        q \in {p \in Dias \X (0..1) \X Dias \X (0..1) :
                  p[2] <= p[4] /\ Instante(p[1], p[2]) < Instante(p[3], p[4])}}

\* the observations of the days a..b, in ascending order, as the JSON rows
\* {data, valor} of the source
RECURSIVE LinhasDe(_, _, _)
LinhasDe(S, a, b) ==
    IF a > b THEN <<>>
    ELSE (IF a \in S THEN <<[data |-> a, valor |-> Taxa(a)]>> ELSE <<>>)
         \o LinhasDe(S, a + 1, b)

\* the answer of the source to dataInicial = a, dataFinal = b: it rejects a
\* window wider than its limit of 10 years, twice the 5 years of a segment
\* (lines 49-50, 58-59)
RespostaBcb(a, b) ==
    IF b - a > 2 * DiasFatia
    THEN [tipo |-> "erro", linhas |-> <<>>]
    ELSE [tipo |-> "lista", linhas |-> LinhasDe(DiasDaSerie, a, b)]

\* what one segment can meet (lines 87-116):
\*   "ok"               the verified request succeeds
\*   "ok_inseguro"      it raises, the request with verify=False succeeds
\*   "falha_transporte" both raise: the outer except skips the segment
\*   "nao_json"         the body is not JSON: dados = []
\*   "erro_api"         the body is a dict with "error"
Desfechos == {"ok", "ok_inseguro", "falha_transporte", "nao_json", "erro_api"}
Tentativas(r) == IF r \in {"ok_inseguro", "falha_transporte"} THEN 2 ELSE 1

\* the rows one segment adds to todos_dados (lines 99-113)
DadosDaFatiaSoVerificada(r, a, b) ==
    IF r = "ok" /\ RespostaBcb(a, b).tipo = "lista"
    THEN RespostaBcb(a, b).linhas
    ELSE <<>>
DadosDaFatia(r, a, b) ==
    IF r \in {"ok", "ok_inseguro"} /\ RespostaBcb(a, b).tipo = "lista"
    THEN RespostaBcb(a, b).linhas
    ELSE <<>>

\* the segment gave no usable response
FatiaFalhou(r, a, b) ==
    r \notin {"ok", "ok_inseguro"} \/ RespostaBcb(a, b).tipo # "lista"

\* fim_fatia = min(data_atual + timedelta(days=365 * janela_anos), data_fim)
FimFatiaSemLimite(atual, fim) == fim
FimFatia(atual, fim) ==
    IF atual + DiasFatia * UmDia < fim THEN atual + DiasFatia * UmDia ELSE fim

\* while data_atual < data_fim (line 65)
HaFatiaInclusive(atual, fim) == atual <= fim
HaFatia(atual, fim) == atual < fim

\* pd.to_datetime(df['data'], format='%d/%m/%Y') (line 130)
ParaDatetime(linhas) ==
    [k \in 1..Len(linhas) |-> [data |-> Instante(linhas[k].data, 0), valor |-> linhas[k].valor]]

\* df.sort_index() (line 134)
RECURSIVE Inserir(_, _)
Inserir(seq, x) ==
    IF seq = <<>> THEN <<x>>
    ELSE IF seq[Len(seq)].data <= x.data THEN Append(seq, x)
    ELSE Append(Inserir(SubSeq(seq, 1, Len(seq) - 1), x), seq[Len(seq)])
RECURSIVE Ordenar(_)
Ordenar(seq) ==
    IF seq = <<>> THEN <<>>
    ELSE Inserir(Ordenar(SubSeq(seq, 1, Len(seq) - 1)), seq[Len(seq)])

\* df[~df.index.duplicated(keep='first')] (line 136)
RECURSIVE SemDuplicadas(_)
SemDuplicadas(seq) ==
    IF seq = <<>> THEN <<>>
    ELSE LET antes == SemDuplicadas(SubSeq(seq, 1, Len(seq) - 1)) IN
         IF \E k \in 1..Len(antes) : antes[k].data = seq[Len(seq)].data
         THEN antes
         ELSE Append(antes, seq[Len(seq)])

\* lines 121-145: the DataFrame returned, empty when no segment gave rows
Consolidar(td) ==
    IF td = <<>> THEN <<>> ELSE SemDuplicadas(Ordenar(ParaDatetime(td)))

\* df.to_csv (line 150): the index is written as a date
ParaCsv(df) ==
    [k \in 1..Len(df) |-> [data |-> DiaDe(df[k].data), valor |-> df[k].valor]]
\* pd.read_csv(index_col=0, parse_dates=True) (line 167)
DeCsv(linhas) ==
    [k \in 1..Len(linhas) |-> [data |-> Instante(linhas[k].data, 0), valor |-> linhas[k].valor]]

\* _salvar_cache (lines 147-161): the file of the series and its timestamp
ArquivosSoComONome(nome, df) ==
    [n \in DOMAIN arquivos |->
        IF n = nome THEN [existe |-> TRUE, linhas |-> ParaCsv(df)]
        ELSE [existe |-> FALSE, linhas |-> <<>>]]
ArquivosAposSalvar(nome, df) ==
    [arquivos EXCEPT ![nome] = [existe |-> TRUE, linhas |-> ParaCsv(df)]]
TimestampsAposSalvar(nome) == [timestamps EXCEPT ![nome] = agora]

\* _carregar_cache (lines 163-169)
CarregarCache(nome) ==
    IF arquivos[nome].existe
    THEN [existe |-> TRUE, df |-> DeCsv(arquivos[nome].linhas)]
    ELSE [existe |-> FALSE, df |-> <<>>]

\* _cache_valido (lines 171-185)
CacheValidoInvertido(nome) ==
    /\ timestamps[nome] # None
    /\ agora - timestamps[nome] >= max_dias
CacheValido(nome) ==
    /\ timestamps[nome] # None
    /\ agora - timestamps[nome] < max_dias

\* mask = (index >= data_inicio) & (index <= data_fim) (lines 232-233)
RECURSIVE Filtrar(_, _, _)
Filtrar(df, ini, fim) ==
    IF df = <<>> THEN <<>>
    ELSE LET resto == Filtrar(SubSeq(df, 1, Len(df) - 1), ini, fim)
             x == df[Len(df)] IN
         IF x.data >= ini /\ x.data <= fim THEN Append(resto, x) ELSE resto

\* lines 228-263: the end of obter_cdi. The DataFrame returned holds, for each
\* row of df_filtrado, its date and the notional compounded up to that row: a
\* function of the rows of df_filtrado, which stand for it here.
SemRetorno == [estado |-> "", serie |-> <<>>]
Concluir(dc, ini, fim) ==
    IF dc = <<>>
    THEN [estado |-> "ValueError", serie |-> <<>>]              \* line 229
    ELSE IF Filtrar(dc, ini, fim) = <<>>
    THEN [estado |-> "IndexError", serie |-> <<>>]              \* line 255, iloc[-1]
    ELSE [estado |-> "ok", serie |-> Filtrar(dc, ini, fim)]

InitRf ==
    /\ serie_bcb \in SeriesBcb
    /\ arquivos = [n \in Nomes |-> [existe |-> FALSE, linhas |-> <<>>]]
    /\ timestamps = [n \in Nomes |-> None]
    /\ agora = 0
    /\ cpc = "ocioso"
    /\ data_inicio = 0 /\ data_fim = 0
    /\ cache_valido = FALSE /\ modo = "" /\ dados_cache = <<>>
    /\ retorno = SemRetorno /\ repetida = FALSE /\ anterior = SemRetorno
    /\ b_inicio = 0 /\ b_fim = 0 /\ data_atual = 0 /\ todos_dados = <<>>
    /\ pedidos = <<>> /\ falhou = FALSE /\ novos_dados = <<>>
    /\ SupOcioso
    /\ VarOcioso
    /\ AtvOcioso
    /\ BrlOcioso
    /\ PoupOcioso
    /\ SalvarOcioso
    /\ OrqOcioso

\* _buscar_serie_bcb is called with (ini, fim): lines 52-63
IniciarBusca(ini, fim) ==
    /\ b_inicio' = ini
    /\ b_fim' = fim
    /\ data_atual' = ini
    /\ todos_dados' = <<>>
    /\ pedidos' = <<>>
    /\ falhou' = FALSE
    /\ novos_dados' = <<>>
    /\ cpc' = "buscando"
    /\ retorno' = SemRetorno

\* dados_cache.index[-1] + timedelta(days=1) (line 212)
InicioNoUltimoDia(df) == df[Len(df)].data
InicioIncremental(df) == df[Len(df)].data + UmDia

\* obter_cdi(ini, fim) up to its first network request or, when the cache
\* serves the call, up to its return: lines 198-233
Chamada(ini, fim, rep) ==
    /\ cpc \in {"ocioso", "retornou"}
    /\ data_inicio' = ini
    /\ data_fim' = fim
    /\ repetida' = rep
    /\ anterior' = IF rep THEN retorno ELSE SemRetorno
    /\ cache_valido' = CacheValido("cdi")
    /\ IF CacheValido("cdi") /\ CarregarCache("cdi").existe
       THEN LET df == CarregarCache("cdi").df IN
            /\ dados_cache' = df
            /\ IF DiaDe(df[Len(df)].data) < DiaDe(fim)
               THEN /\ modo' = "incremental"
                    /\ IniciarBusca(InicioIncremental(df), fim)
               ELSE /\ modo' = "cache"
                    /\ retorno' = Concluir(df, ini, fim)
                    /\ cpc' = "retornou"
                    /\ b_inicio' = 0 /\ b_fim' = 0 /\ data_atual' = 0
                    /\ todos_dados' = <<>> /\ pedidos' = <<>>
                    /\ falhou' = FALSE /\ novos_dados' = <<>>
       ELSE /\ dados_cache' = <<>>
            /\ modo' = "completo"
            /\ IniciarBusca(ini, fim)
    /\ UNCHANGED <<serie_bcb, arquivos, timestamps, agora>>
    /\ UNCHANGED foraRf

\* a call of obter_cdi
ObterCdi == \E a \in ArgumentosValidos : Chamada(a[1], a[2], FALSE)

\* obter_cdi is called again with the range of the call that just returned
ObterCdiDeNovo == cpc = "retornou" /\ Chamada(data_inicio, data_fim, TRUE)

\* one iteration of the loop of _buscar_serie_bcb: lines 65-119
BcbFatia ==
    /\ cpc = "buscando"
    /\ HaFatia(data_atual, b_fim)
    /\ LET fim_fatia == FimFatia(data_atual, b_fim)
           a == DiaDe(data_atual)
           b == DiaDe(fim_fatia) IN
       \E r \in Desfechos :
           /\ todos_dados' = todos_dados \o DadosDaFatia(r, a, b)
           /\ pedidos' = Append(pedidos, [inicio |-> a, fim |-> b, desfecho |-> r,
                                         tentativas |-> Tentativas(r)])
           /\ falhou' = (falhou \/ FatiaFalhou(r, a, b))
           /\ data_atual' = fim_fatia + UmDia
    /\ UNCHANGED <<serie_bcb, arquivos, timestamps, agora, cpc, data_inicio, data_fim,
                   cache_valido, modo, dados_cache, retorno, repetida, anterior,
                   b_inicio, b_fim, novos_dados>>
    /\ UNCHANGED foraRf

\* the loop is over: _buscar_serie_bcb consolidates and returns, lines 121-145
BcbConsolidar ==
    /\ cpc = "buscando"
    /\ ~HaFatia(data_atual, b_fim)
    /\ novos_dados' = Consolidar(todos_dados)
    /\ cpc' = "apos_busca"
    /\ UNCHANGED <<serie_bcb, arquivos, timestamps, agora, data_inicio, data_fim,
                   cache_valido, modo, dados_cache, retorno, repetida, anterior,
                   b_inicio, b_fim, data_atual, todos_dados, pedidos, falhou>>
    /\ UNCHANGED foraRf

\* if not novos_dados.empty (line 215), if not dados_cache.empty (line 225)
SalvaSempre(nd) == TRUE
TemNovosDados(nd) == nd # <<>>

\* obter_cdi after the fetch: merge, save, filter, return (lines 215-217,
\* 225-263)
ObterCdiAposBusca ==
    /\ cpc = "apos_busca"
    /\ ppc = "ocioso"                  \* the fetch was called by obter_cdi
    /\ LET dc == IF modo = "incremental" THEN dados_cache \o novos_dados ELSE novos_dados IN
        /\ dados_cache' = dc
        /\ IF TemNovosDados(novos_dados)
           THEN /\ arquivos' = ArquivosAposSalvar("cdi", dc)
                /\ timestamps' = TimestampsAposSalvar("cdi")
           ELSE UNCHANGED <<arquivos, timestamps>>
        /\ retorno' = Concluir(dc, data_inicio, data_fim)
    /\ cpc' = "retornou"
    /\ UNCHANGED <<serie_bcb, agora, data_inicio, data_fim, cache_valido, modo,
                   repetida, anterior, b_inicio, b_fim, data_atual, todos_dados,
                   pedidos, falhou, novos_dados>>
    /\ UNCHANGED foraRf

\* time goes by between two calls. The clock is read only by _cache_valido,
\* which asks whether fewer than max_dias whole days have gone by since the
\* entry was saved: the model lets time pass up to the last day the entry of
\* 'cdi' is valid on, and up to the first day it is stale on.
PassarTempo ==
    /\ cpc \in {"ocioso", "retornou"}
    /\ timestamps["cdi"] # None
    /\ \E t \in (agora + 1)..MaxAgora :
           /\ t - timestamps["cdi"] \in {max_dias - 1, max_dias}
           /\ agora' = t
    /\ UNCHANGED <<serie_bcb, arquivos, timestamps, cpc, data_inicio, data_fim,
                   cache_valido, modo, dados_cache, retorno, repetida, anterior,
                   b_inicio, b_fim, data_atual, todos_dados, pedidos, falhou, novos_dados>>
    /\ UNCHANGED foraRf

NextRf ==
    \/ ObterCdi
    \/ ObterCdiDeNovo
    \/ BcbFatia
    \/ BcbConsolidar
    \/ ObterCdiAposBusca
    \/ PassarTempo

SpecRf == InitRf /\ [][NextRf]_vars

(***************************************************************************)
(* obter_poupanca: renda_fixa_br.py 265-354                                *)
(***************************************************************************)
\* rational arithmetic on the finite numbers num/den, kept in lowest terms
RECURSIVE Mdc(_, _)
Mdc(a, b) == IF b = 0 THEN a ELSE Mdc(b, a % b)
Abs(a) == IF a < 0 THEN -a ELSE a
Fracao(n, d) == Numero(n \div Mdc(Abs(n), d), d \div Mdc(Abs(n), d))
Soma(x, y) == Fracao(x.num * y.den + y.num * x.den, x.den * y.den)
Dividido(x, n) == Fracao(x.num, x.den * n)
Maior(x, y) == x.num * y.den > y.num * x.den
MaiorOuIgual(x, y) == x.num * y.den >= y.num * x.den
Igual(x, y) == x.num * y.den = y.num * x.den

\* a rate in tenths of a percent, in percent
EmPorcento(v) == Fracao(v, 10)

\* lambda x: 0.5 if x > 8.5 else (x * 0.7 / 12) (lines 317-319)
AcimaDoLimiteOuNele(x) == MaiorOuIgual(x, Numero(85, 10))
AcimaDoLimite(x) == Maior(x, Numero(85, 10))
RendimentoMensal(x) ==
    IF AcimaDoLimite(x) THEN Fracao(5, 10) ELSE Fracao(x.num * 7, x.den * 10 * 12)
\* df['rendimento_mensal'] + (df['tr'] / 12) (line 322)
RendimentoTotal(x, t) == Soma(RendimentoMensal(x), Dividido(t, 12))
\* df['rendimento_total'] / 30 (line 325)
TaxaDiaria(x, t) == Dividido(RendimentoTotal(x, t), 30)

\* tr = pd.DataFrame({'valor': 0}, index=selic.index) when tr is empty
\* (lines 290-292)
TrOuZeros(t, s) ==
    IF t = <<>> THEN [k \in 1..Len(s) |-> [data |-> s[k].data, valor |-> 0]] ELSE t

\* df.fillna(0) (line 303)
SemPreencher(v) == v
Preencher(v) == IF v = NaN THEN 0 ELSE v

\* lines 295-303: selic left-joined with tr on the date, the gaps filled
Mesclar(s, t) ==
    [k \in 1..Len(s) |->
        LET iguais == {j \in 1..Len(t) : t[j].data = s[k].data} IN
        [data |-> s[k].data,
         selic |-> Preencher(s[k].valor),
         tr |-> Preencher(IF iguais = {} THEN NaN ELSE t[Min(iguais)].valor)]]

\* lines 317-325: the columns computed for one row
Render(linha) ==
    [data |-> linha.data, selic |-> linha.selic, tr |-> linha.tr,
     rendimento_mensal |-> RendimentoMensal(EmPorcento(linha.selic)),
     rendimento_total |-> RendimentoTotal(EmPorcento(linha.selic), EmPorcento(linha.tr)),
     taxa_diaria |-> TaxaDiaria(EmPorcento(linha.selic), EmPorcento(linha.tr))]

\* lines 294-354 once both series are fetched. The DataFrame returned holds,
\* for each row that passes the filter, its date and the notional compounded
\* by taxa_diaria up to that row: the rows computed stand for it here.
Calcular(s, t, ini, fim) ==
    LET df == Filtrar(Mesclar(s, TrOuZeros(t, s)), ini, fim) IN
    IF df = <<>>
    THEN [estado |-> "ValueError", linhas |-> <<>>]             \* lines 310, 354
    ELSE [estado |-> "ok", linhas |-> [k \in 1..Len(df) |-> Render(df[k])]]

SemPoupanca == [estado |-> "", linhas |-> <<>>]

InitPoup ==
    /\ fontes \in FontesBcb
    /\ \E a \in ArgumentosValidos : data_inicio = a[1] /\ data_fim = a[2]
    /\ serie_codigo = CodigoCdi
    /\ selic = <<>> /\ tr = <<>>
    /\ poupanca = SemPoupanca
    /\ ppc = "chamada"
    /\ serie_bcb = {}
    /\ arquivos = [n \in Nomes |-> [existe |-> FALSE, linhas |-> <<>>]]
    /\ timestamps = [n \in Nomes |-> None]
    /\ agora = 0
    /\ cpc = "parado"
    /\ cache_valido = FALSE /\ modo = "" /\ dados_cache = <<>>
    /\ retorno = SemRetorno /\ repetida = FALSE /\ anterior = SemRetorno
    /\ b_inicio = 0 /\ b_fim = 0 /\ data_atual = 0 /\ todos_dados = <<>>
    /\ pedidos = <<>> /\ falhou = FALSE /\ novos_dados = <<>>
    /\ SupOcioso
    /\ VarOcioso
    /\ AtvOcioso
    /\ BrlOcioso
    /\ SalvarOcioso
    /\ OrqOcioso

\* lines 276-283: obter_poupanca asks for SELIC
PoupancaChamada ==
    /\ ppc = "chamada"
    /\ serie_codigo' = CodigoSelic
    /\ IniciarBusca(data_inicio, data_fim)
    /\ ppc' = "selic"
    /\ UNCHANGED <<fontes, selic, tr, poupanca>>
    /\ UNCHANGED <<serie_bcb, arquivos, timestamps, agora, data_inicio, data_fim,
                   cache_valido, modo, dados_cache, repetida, anterior>>
    /\ UNCHANGED foraPoup

\* lines 283-289: SELIC is back; empty, the ValueError of line 285 becomes
\* the ValueError of line 354; otherwise TR is asked for
PoupancaAposSelic ==
    /\ ppc = "selic" /\ cpc = "apos_busca"
    /\ selic' = novos_dados
    /\ IF novos_dados = <<>>
       THEN /\ poupanca' = [estado |-> "ValueError", linhas |-> <<>>]
            /\ ppc' = "erro"
            /\ cpc' = "parado"
            /\ UNCHANGED <<serie_codigo, b_inicio, b_fim, data_atual, todos_dados,
                           pedidos, falhou, novos_dados, retorno>>
       ELSE /\ serie_codigo' = CodigoTr
            /\ IniciarBusca(data_inicio, data_fim)
            /\ ppc' = "tr"
            /\ UNCHANGED poupanca
    /\ UNCHANGED <<fontes, tr>>
    /\ UNCHANGED <<serie_bcb, arquivos, timestamps, agora, data_inicio, data_fim,
                   cache_valido, modo, dados_cache, repetida, anterior>>
    /\ UNCHANGED foraPoup

\* lines 289-354: TR is back; merge, filter, compute, return
PoupancaAposTr ==
    /\ ppc = "tr" /\ cpc = "apos_busca"
    /\ tr' = novos_dados
    /\ poupanca' = Calcular(selic, novos_dados, data_inicio, data_fim)
    /\ ppc' = IF Calcular(selic, novos_dados, data_inicio, data_fim).estado = "ok"
              THEN "retornou" ELSE "erro"
    /\ cpc' = "parado"
    /\ UNCHANGED <<fontes, serie_codigo, selic>>
    /\ UNCHANGED <<serie_bcb, arquivos, timestamps, agora, data_inicio, data_fim,
                   cache_valido, modo, dados_cache, retorno, repetida, anterior,
                   b_inicio, b_fim, data_atual, todos_dados, pedidos, falhou, novos_dados>>
    /\ UNCHANGED foraPoup

NextPoup ==
    \/ PoupancaChamada
    \/ BcbFatia
    \/ BcbConsolidar
    \/ PoupancaAposSelic
    \/ PoupancaAposTr

SpecPoup == InitPoup /\ [][NextPoup]_vars
\* the loop of _buscar_serie_bcb waits for nothing (every request has a
\* timeout): an iteration that can run does run
SpecPoupJusta == SpecPoup /\ WF_vars(BcbFatia)

(***************************************************************************)
(* obter_dados_ativo: comparacao_ativos.py 15-96                           *)
(***************************************************************************)
\* tentativas = 3 (line 43)
tentativas == 3

\* the identifiers of the model: two market identifiers, the second with
\* "404" in its text, and three fixed-income identifiers
Tickers == {"AAPL", "0404.HK", "RF-CDI", "RF-POUPANCA", "RF-OUTRO"}
\* ticker.startswith('RF-') (line 28)
ComecaComRF(t) == t \in {"RF-CDI", "RF-POUPANCA", "RF-OUTRO", "RF-OUTRO-USD"}

\* A text stands for the set of the substrings it holds among those the
\* handler of lines 75-96 looks for ("timeout" in any letter case).
MarcasNaoEncontrado == {"404", "Not Found", "delisted"}
MarcasConexao == {"ConnectionError", "Failed to connect", "timeout"}
MarcasDoTicker(t) == IF t = "0404.HK" THEN {"404"} ELSE {}

\* f"Ticker '{ticker}' não encontrado ou sem dados disponíveis" (line 73)
TextoSemDados(t) == MarcasDoTicker(t)

\* the three messages of lines 79-96
Classificar(texto) ==
    IF texto \cap MarcasNaoEncontrado # {} THEN "nao_encontrado"
    ELSE IF texto \cap MarcasConexao # {} THEN "conexao"
    ELSE "generico"

\* what yf.download can meet (lines 48-54): a DataFrame of n rows, n = 0 being
\* the empty response, or an exception, which is a network/timeout condition
\* or not and whose text holds some of the substrings
Dados(n) == [tipo |-> "dados", linhas |-> [j \in 1..n |-> j], rede |-> FALSE, texto |-> {}]
Excecao(r, m) == [tipo |-> "excecao", linhas |-> <<>>, rede |-> r, texto |-> m]
RespostasYf ==
    {Dados(n) : n \in 0..MaxLinhas}
    \cup {Excecao(TRUE, m) : m \in {{}, {"timeout"}, {"Failed to connect"}}}
    \cup {Excecao(FALSE, m) : m \in {{}, {"404"}, {"delisted"}}}

\* the exception of this attempt leads to another attempt (lines 62-70)
TentaSempre(r, t) == TRUE
TentaDeNovo(r, t) == t < tentativas - 1

\* the empty response leads to another attempt: the body of the loop ends
\* without return or break (lines 56-60)
VazioTentaDeNovo(t) == t < tentativas - 1

\* if not dados.empty (line 56)
TemDadosOuVazio(r) == r.tipo = "dados"
TemDados(r) == r.tipo = "dados" /\ r.linhas # <<>>

\* ultimo_erro = None (line 44), ultimo_erro = str(e) (line 63)
SemErro == [ha |-> FALSE, texto |-> {}]
TextoDoErro(r) == [ha |-> TRUE, texto |-> r.texto]

\* the outcomes of obter_ativo_renda_fixa (renda_fixa_br.py 358-377)
DesfechosRendaFixa(t) ==
    IF t = "RF-CDI" THEN {"ok", "ValueError", "IndexError"}
    ELSE IF t = "RF-POUPANCA" THEN {"ok", "ValueError"}
    ELSE {"ValueError"}

SemRetornoAtivo == [estado |-> "", dados |-> <<>>, mensagem |-> ""]

InitAtv ==
    /\ ticker \in Tickers
    /\ RENDA_FIXA_DISPONIVEL \in BOOLEAN
    /\ tentativa = 0
    /\ ultimo_erro = SemErro
    /\ eventos = <<>>
    /\ respostas = <<>>
    /\ a_retorno = SemRetornoAtivo
    /\ apc = "chamada"
    /\ SupOcioso
    /\ VarOcioso
    /\ RfOcioso
    /\ BrlOcioso
    /\ PoupOcioso
    /\ SalvarOcioso
    /\ OrqOcioso

\* lines 28-36: a fixed-income identifier is handed to obter_ativo_renda_fixa
AtivoRendaFixa ==
    /\ apc = "chamada" /\ ComecaComRF(ticker)
    /\ IF ~RENDA_FIXA_DISPONIVEL
       THEN /\ a_retorno' = [estado |-> "ValueError", dados |-> <<>>, mensagem |-> "modulo"]
            /\ apc' = "erro"
       ELSE \E d \in DesfechosRendaFixa(ticker) :
                /\ a_retorno' = [estado |-> d,
                                 dados |-> IF d = "ok" THEN <<1>> ELSE <<>>,
                                 mensagem |-> "renda_fixa"]
                /\ apc' = IF d = "ok" THEN "retornou" ELSE "erro"
    /\ UNCHANGED <<ticker, RENDA_FIXA_DISPONIVEL, tentativa, ultimo_erro, eventos, respostas>>
    /\ UNCHANGED foraAtv

\* lines 39-44: a market identifier enters the retry loop
AtivoMercado ==
    /\ apc = "chamada" /\ ~ComecaComRF(ticker)
    /\ tentativa' = 0
    /\ ultimo_erro' = SemErro
    /\ apc' = "laco"
    /\ UNCHANGED <<ticker, RENDA_FIXA_DISPONIVEL, eventos, respostas, a_retorno>>
    /\ UNCHANGED foraAtv

\* one attempt of the loop, lines 46-70
AtivoTentativa ==
    /\ apc = "laco" /\ tentativa < tentativas
    /\ \E r \in RespostasYf :
        /\ respostas' = Append(respostas, r)
        /\ IF TemDados(r)
           THEN \* line 60
                /\ a_retorno' = [estado |-> "ok", dados |-> r.linhas, mensagem |-> ""]
                /\ apc' = "retornou"
                /\ eventos' = Append(eventos, "consulta")
                /\ UNCHANGED <<tentativa, ultimo_erro>>
           ELSE IF r.tipo = "dados"
           THEN \* the empty response: neither return nor except
                /\ eventos' = Append(eventos, "consulta")
                /\ apc' = IF VazioTentaDeNovo(tentativa) THEN "laco" ELSE "esgotou"
                /\ tentativa' = IF VazioTentaDeNovo(tentativa) THEN tentativa + 1 ELSE tentativa
                /\ UNCHANGED <<ultimo_erro, a_retorno>>
           ELSE \* lines 62-70
                /\ ultimo_erro' = TextoDoErro(r)
                /\ IF TentaDeNovo(r, tentativa)
                   THEN /\ eventos' = eventos \o <<"consulta", "espera">>
                        /\ tentativa' = tentativa + 1
                        /\ apc' = "laco"
                   ELSE /\ eventos' = Append(eventos, "consulta")
                        /\ apc' = "esgotou"
                        /\ UNCHANGED tentativa
                /\ UNCHANGED a_retorno
    /\ UNCHANGED <<ticker, RENDA_FIXA_DISPONIVEL>>
    /\ UNCHANGED foraAtv

\* lines 72-96: the loop gave no data; the ValueError of line 73 is caught at
\* line 75 and its own text is what is inspected
AtivoSemDados ==
    /\ apc = "esgotou"
    /\ a_retorno' = [estado |-> "ValueError", dados |-> <<>>,
                     mensagem |-> Classificar(TextoSemDados(ticker))]
    /\ apc' = "erro"
    /\ UNCHANGED <<ticker, RENDA_FIXA_DISPONIVEL, tentativa, ultimo_erro, eventos, respostas>>
    /\ UNCHANGED foraAtv

NextAtv ==
    \/ AtivoRendaFixa
    \/ AtivoMercado
    \/ AtivoTentativa
    \/ AtivoSemDados

SpecAtv == InitAtv /\ [][NextAtv]_vars

\* the scheduling of a synchronous call: a step that can be taken is taken
SpecAtvJusta == SpecAtv /\ WF_vars(NextAtv)

(***************************************************************************)
(* converter_usd_para_brl: comparacao_ativos.py 98-175                     *)
(***************************************************************************)
\* the columns multiplied (lines 126, 156)
ColunasPreco == {"Open", "High", "Low", "Close", "Adj Close"}
\* the columns of the input DataFrames of the model
ColunasUsd == {"Close", "Adj Close", "Volume"}

\* the dates of D in ascending order
RECURSIVE EmOrdem(_)
EmOrdem(D) == IF D = {} THEN <<>> ELSE <<Min(D)>> \o EmOrdem(D \ {Min(D)})

\* the input DataFrame with a row on every date of D
DataFrameUsd(D) ==
    [datas |-> EmOrdem(D),
     colunas |-> [c \in ColunasUsd |->
                    [k \in 1..Cardinality(D) |->
                        IF c = "Close" THEN 10 + EmOrdem(D)[k]
                        ELSE IF c = "Adj Close" THEN 20 + EmOrdem(D)[k]
                        ELSE 5]]]
EntradasUsd == {DataFrameUsd(D) : D \in SUBSET Datas}

\* the rates of the exchange-rate source
TaxasCambio == {2, 3}
\* what yf.download('BRL=X', start, end) can meet (line 114): an exception, or
\* a DataFrame whose 'Close' has a rate on some dates (on none: empty)
RespostasHistorico ==
    {[tipo |-> "excecao", taxa |-> [d \in Datas |-> NaN]]}
    \cup {[tipo |-> "dados", taxa |-> f] : f \in [Datas -> TaxasCambio \cup {NaN}]}
\* what yf.download('BRL=X', period='1d') can meet (line 119): an exception,
\* the empty DataFrame, or one row with the latest rate
RespostasAtual ==
    {[tipo |-> "excecao", taxa |-> NaN], [tipo |-> "dados", taxa |-> NaN],
     [tipo |-> "dados", taxa |-> 5]}

\* cambio.empty (line 116)
CambioVazio(c) == \A d \in Datas : c.taxa[d] = NaN

\* taxa_cambio.reindex(dados_usd.index) (line 149): the rate of each date of
\* the input that the rate series has, NaN for the others
Reindexar(taxa, ds) == [k \in 1..Len(ds) |-> taxa[ds[k]]]
\* .ffill() (line 150)
Ffill(sq) ==
    [k \in 1..Len(sq) |->
        LET antes == {j \in 1..k : sq[j] # NaN} IN
        IF antes = {} THEN NaN ELSE sq[Max(antes)]]
\* .bfill() (line 153)
Bfill(sq) ==
    [k \in 1..Len(sq) |->
        LET depois == {j \in k..Len(sq) : sq[j] # NaN} IN
        IF depois = {} THEN NaN ELSE sq[Min(depois)]]
\* lines 146-153
TaxaAlinhada(taxa, ds) == Bfill(Ffill(Reindexar(taxa, ds)))

\* the product of two floats, NaN when one of them is NaN
Vezes(x, r) == IF x = NaN \/ r = NaN THEN NaN ELSE x * r

\* lines 155-163: every price column times the aligned rate of its row
ConverterPorSerie(df, alinhada) ==
    [datas |-> df.datas,
     colunas |-> [c \in DOMAIN df.colunas |->
                    IF c \in ColunasPreco
                    THEN [k \in 1..Len(df.datas) |-> Vezes(df.colunas[c][k], alinhada[k])]
                    ELSE df.colunas[c]]]
\* lines 123-127: every price column times taxa_fixa
ConverterPorTaxaFixa(df, taxa_fixa) ==
    [datas |-> df.datas,
     colunas |-> [c \in DOMAIN df.colunas |->
                    IF c \in ColunasPreco
                    THEN [k \in 1..Len(df.datas) |-> Vezes(df.colunas[c][k], taxa_fixa)]
                    ELSE df.colunas[c]]]

\* except Exception as e (line 170) catches the exception e
CapturaSoValueError(e) == e = "ValueError"
Captura(e) == TRUE

\* lines 170-175: the exception e raised inside the try
AposExcecao(e) ==
    IF Captura(e)
    THEN [estado |-> "ok", modo |-> "usd", dados |-> dados_usd]
    ELSE [estado |-> e, modo |-> "", dados |-> <<>>]

SemResposta == [tipo |-> "", taxa |-> NaN]
SemRetornoBrl == [estado |-> "", modo |-> "", dados |-> <<>>]

InitBrl ==
    /\ dados_usd \in EntradasUsd
    /\ fonte_cambio \in [historico : RespostasHistorico, atual : RespostasAtual]
    /\ cambio = SemResposta
    /\ cambio_atual = SemResposta
    /\ consultas = <<>>
    /\ retorno_brl = SemRetornoBrl
    /\ bpc = "chamada"
    /\ SupOcioso
    /\ VarOcioso
    /\ RfOcioso
    /\ AtvOcioso
    /\ PoupOcioso
    /\ SalvarOcioso
    /\ OrqOcioso

\* lines 110-116 and, with a rate series, 132-168
ConverterChamada ==
    /\ bpc = "chamada"
    /\ consultas' = Append(consultas, "historico")
    /\ cambio' = fonte_cambio.historico
    /\ LET c == fonte_cambio.historico IN
       IF c.tipo = "excecao"
       THEN /\ retorno_brl' = AposExcecao("ConnectionError")
            /\ bpc' = IF Captura("ConnectionError") THEN "retornou" ELSE "erro"
       ELSE IF CambioVazio(c)
       THEN /\ bpc' = "taxa_fixa"
            /\ UNCHANGED retorno_brl
       ELSE /\ retorno_brl' =
                   [estado |-> "ok", modo |-> "serie",
                    dados |-> ConverterPorSerie(dados_usd, TaxaAlinhada(c.taxa, dados_usd.datas))]
            /\ bpc' = "retornou"
    /\ UNCHANGED <<dados_usd, fonte_cambio, cambio_atual>>
    /\ UNCHANGED foraBrl

\* lines 117-130: the rate series came empty, the latest rate is asked for
ConverterTaxaFixa ==
    /\ bpc = "taxa_fixa"
    /\ consultas' = Append(consultas, "atual")
    /\ cambio_atual' = fonte_cambio.atual
    /\ LET c == fonte_cambio.atual IN
       IF c.tipo = "excecao"
       THEN /\ retorno_brl' = AposExcecao("ConnectionError")
            /\ bpc' = IF Captura("ConnectionError") THEN "retornou" ELSE "erro"
       ELSE IF c.taxa = NaN
       THEN \* line 130
            /\ retorno_brl' = AposExcecao("ValueError")
            /\ bpc' = IF Captura("ValueError") THEN "retornou" ELSE "erro"
       ELSE /\ retorno_brl' = [estado |-> "ok", modo |-> "taxa_fixa",
                               dados |-> ConverterPorTaxaFixa(dados_usd, c.taxa)]
            /\ bpc' = "retornou"
    /\ UNCHANGED <<dados_usd, fonte_cambio, cambio>>
    /\ UNCHANGED foraBrl

NextBrl ==
    \/ ConverterChamada
    \/ ConverterTaxaFixa

SpecBrl == InitBrl /\ [][NextBrl]_vars

(***************************************************************************)
(* Processes running _salvar_cache: renda_fixa_br.py 147-161               *)
(***************************************************************************)
\* the processes that share the cache directory
Processos == {1, 2}
\* the names a series is cached under
NomesDeCache == {"cdi", "selic", "tr"}
\* the DataFrames handed to _salvar_cache
FramesSalvos == {ParaDatetime(LinhasDe(0..1, 0, b)) : b \in 0..1}
\* a timestamp index without entries: no file, or the file just opened with 'w'
IndiceVazio == [n \in NomesDeCache |-> None]

\* timestamps[nome] = datetime.now().isoformat(); json.dump(timestamps, f)
\* (lines 158-161): the index written is the copy read, with the entry of nome
IndiceSoComONome(local, nome) ==
    [n \in DOMAIN local |-> IF n = nome THEN agora ELSE None]
IndiceAposGravar(local, nome) == [local EXCEPT ![nome] = agora]

InitSalvar ==
    /\ concorrentes \in BOOLEAN
    /\ spc = [p \in Processos |-> "ocioso"]
    /\ s_nome = [p \in Processos |-> ""]
    /\ s_df = [p \in Processos |-> <<>>]
    /\ s_local = [p \in Processos |-> IndiceVazio]
    /\ restantes = [p \in Processos |->
                       IF concorrentes THEN 1 ELSE IF p = 1 THEN MaxSalvos ELSE 0]
    /\ historia = <<>>
    /\ gravado_em = IndiceVazio
    /\ truncado = FALSE
    /\ arquivos = [n \in NomesDeCache |-> [existe |-> FALSE, linhas |-> <<>>]]
    /\ timestamps = IndiceVazio
    /\ agora = 0
    /\ serie_bcb = {} /\ cpc = "parado" /\ data_inicio = 0 /\ data_fim = 0
    /\ cache_valido = FALSE /\ modo = "" /\ dados_cache = <<>>
    /\ retorno = <<>> /\ repetida = FALSE /\ anterior = <<>>
    /\ b_inicio = 0 /\ b_fim = 0 /\ data_atual = 0 /\ todos_dados = <<>>
    /\ pedidos = <<>> /\ falhou = FALSE /\ novos_dados = <<>>
    /\ SupOcioso
    /\ VarOcioso
    /\ AtvOcioso
    /\ BrlOcioso
    /\ PoupOcioso
    /\ OrqOcioso

\* process p calls _salvar_cache(nome, df)
SalvarCache(p) ==
    /\ spc[p] = "ocioso" /\ restantes[p] > 0
    /\ \E n \in NomesDeCache, df \in FramesSalvos :
           /\ s_nome' = [s_nome EXCEPT ![p] = n]
           /\ s_df' = [s_df EXCEPT ![p] = df]
    /\ restantes' = [restantes EXCEPT ![p] = restantes[p] - 1]
    /\ spc' = [spc EXCEPT ![p] = "csv"]
    /\ UNCHANGED <<concorrentes, s_local, historia, gravado_em, truncado>>
    /\ UNCHANGED <<arquivos, timestamps, agora>>
    /\ UNCHANGED foraSalvar

\* df.to_csv(cache_file) (lines 149-150)
EscreverCsv(p) ==
    /\ spc[p] = "csv"
    /\ arquivos' = ArquivosAposSalvar(s_nome[p], s_df[p])
    /\ spc' = [spc EXCEPT ![p] = "ler"]
    /\ UNCHANGED <<concorrentes, s_nome, s_df, s_local, restantes, historia,
                   gravado_em, truncado>>
    /\ UNCHANGED <<timestamps, agora>>
    /\ UNCHANGED foraSalvar

\* timestamps = {}; if the file exists: timestamps = json.load(f) (lines
\* 153-156). A file another process has opened with 'w' and not yet written
\* is empty: json.load raises and the call ends there.
LerIndice(p) ==
    /\ spc[p] = "ler"
    /\ IF truncado
       THEN /\ spc' = [spc EXCEPT ![p] = "erro"]
            /\ UNCHANGED s_local
       ELSE /\ spc' = [spc EXCEPT ![p] = "abrir"]
            /\ s_local' = [s_local EXCEPT ![p] = timestamps]
    /\ historia' = Append(historia, [proc |-> p, passo |-> "ler"])
    /\ UNCHANGED <<concorrentes, s_nome, s_df, restantes, gravado_em, truncado>>
    /\ UNCHANGED <<arquivos, timestamps, agora>>
    /\ UNCHANGED foraSalvar

\* open(self.ultima_atualizacao_file, 'w') (line 160) empties the file
AbrirIndice(p) ==
    /\ spc[p] = "abrir"
    /\ timestamps' = IndiceVazio
    /\ truncado' = TRUE
    /\ spc' = [spc EXCEPT ![p] = "gravar"]
    /\ UNCHANGED <<concorrentes, s_nome, s_df, s_local, restantes, historia, gravado_em>>
    /\ UNCHANGED <<arquivos, agora>>
    /\ UNCHANGED foraSalvar

\* json.dump(timestamps, f, indent=2) and the close of the file (line 161)
GravarIndice(p) ==
    /\ spc[p] = "gravar"
    /\ timestamps' = IndiceAposGravar(s_local[p], s_nome[p])
    /\ truncado' = FALSE
    /\ gravado_em' = [gravado_em EXCEPT ![s_nome[p]] = agora]
    /\ historia' = Append(historia, [proc |-> p, passo |-> "gravar"])
    /\ spc' = [spc EXCEPT ![p] = "ocioso"]
    /\ UNCHANGED <<concorrentes, s_nome, s_df, s_local, restantes>>
    /\ UNCHANGED <<arquivos, agora>>
    /\ UNCHANGED foraSalvar

\* time goes by between two calls
PassarTempoSalvar ==
    /\ \A p \in Processos : spc[p] = "ocioso"
    /\ \E t \in (agora + 1)..MaxAgora : agora' = t
    /\ UNCHANGED salvarVars
    /\ UNCHANGED <<arquivos, timestamps>>
    /\ UNCHANGED foraSalvar

NextSalvar ==
    \/ \E p \in Processos : SalvarCache(p)
    \/ \E p \in Processos : EscreverCsv(p)
    \/ \E p \in Processos : LerIndice(p)
    \/ \E p \in Processos : AbrirIndice(p)
    \/ \E p \in Processos : GravarIndice(p)
    \/ PassarTempoSalvar

SpecSalvar == InitSalvar /\ [][NextSalvar]_vars

(***************************************************************************)
(* plotar_comparacao, plotar_analise_janelas: comparacao_ativos.py 344-382, *)
(* 528-599                                                                 *)
(***************************************************************************)
\* the identifiers handed to the two functions: a market identifier, one
\* quoted in USD, a fixed-income one, and one that begins with 'RF-' and ends
\* with '-USD'
TickersOrq == {"AAPL", "BTC-USD", "RF-CDI", "RF-OUTRO-USD"}
\* ticker.endswith('-USD') (lines 359, 369, 561, 571)
ConverteSempre(t) == TRUE
TerminaComUSD(t) == t \in {"BTC-USD", "RF-OUTRO-USD"}

\* the outcomes of obter_dados_ativo(ticker, ...): a DataFrame or an exception
DesfechosObter(t) ==
    IF ComecaComRF(t) THEN DesfechosRendaFixa(t) ELSE {"ok", "ValueError"}
\* the outcomes of calcular_variacao_percentual (lines 177-204) and of
\* calcular_retorno_janela (lines 206-243); "vazio" is a Series without rows
DesfechosCalculo(m) ==
    IF m = "comparacao" THEN {"ok", "ValueError", "IndexError"}
    ELSE {"ok", "vazio", "ValueError", "ZeroDivisionError"}

TickerDe(k) == IF k = 1 THEN ticker1 ELSE ticker2
Passo(nome, k, d) == [passo |-> nome, ativo |-> k, desfecho |-> d]
\* the statement after the fetch and conversion of instrument k
DepoisDoAtivo(k) == IF k = 1 THEN "buscar2" ELSE "calcular1"
\* len(retornos1) == 0 or len(retornos2) == 0 (line 585)
AlgumVazio(ps) ==
    \E j \in 1..Len(ps) : ps[j].passo = "calcular" /\ ps[j].desfecho = "vazio"

InitOrq ==
    /\ o_modo \in {"comparacao", "janelas"}
    /\ ticker1 \in TickersOrq
    /\ ticker2 \in TickersOrq
    /\ passos = <<>>
    /\ opc = "buscar1"
    /\ SupOcioso
    /\ VarOcioso
    /\ RfOcioso
    /\ AtvOcioso
    /\ BrlOcioso
    /\ PoupOcioso
    /\ SalvarOcioso

\* dados_k = obter_dados_ativo(ticker_k, data_inicio, data_fim) and the test
\* of the identifier that follows it; an exception leaves the function
OrqBuscar(k) ==
    /\ opc = (IF k = 1 THEN "buscar1" ELSE "buscar2")
    /\ \E d \in DesfechosObter(TickerDe(k)) :
           /\ passos' = Append(passos, Passo("buscar", k, d))
           /\ opc' = IF d # "ok" THEN "erro"
                      ELSE IF TerminaComUSD(TickerDe(k))
                      THEN (IF k = 1 THEN "converter1" ELSE "converter2")
                      ELSE DepoisDoAtivo(k)
    /\ UNCHANGED <<o_modo, ticker1, ticker2>>
    /\ UNCHANGED foraOrq

\* dados_k = converter_usd_para_brl(dados_k, data_inicio, data_fim), which
\* returns in every case
OrqConverter(k) ==
    /\ opc = (IF k = 1 THEN "converter1" ELSE "converter2")
    /\ passos' = Append(passos, Passo("converter", k, "ok"))
    /\ opc' = DepoisDoAtivo(k)
    /\ UNCHANGED <<o_modo, ticker1, ticker2>>
    /\ UNCHANGED foraOrq

\* var_k = calcular_variacao_percentual(dados_k) (lines 376-377) or
\* retornos_k = calcular_retorno_janela(dados_k, janela_meses) (lines 578-579)
\* and, after the second in plotar_analise_janelas, the test of line 585
OrqCalcular(k) ==
    /\ opc = (IF k = 1 THEN "calcular1" ELSE "calcular2")
    /\ \E d \in DesfechosCalculo(o_modo) :
           /\ passos' = Append(passos, Passo("calcular", k, d))
           /\ opc' = IF d \notin {"ok", "vazio"} THEN "erro"
                      ELSE IF k = 1 THEN "calcular2"
                      ELSE IF AlgumVazio(Append(passos, Passo("calcular", k, d)))
                      THEN "retornou"
                      ELSE "detectar"
    /\ UNCHANGED <<o_modo, ticker1, ticker2>>
    /\ UNCHANGED foraOrq

\* periodos = encontrar_periodos_superacao(var1, var2) (line 380) or
\* janelas = encontrar_janelas_superacao(...) (line 596), and the plotting
OrqDetectar ==
    /\ opc = "detectar"
    /\ passos' = Append(passos, Passo("detectar", 0, "ok"))
    /\ opc' = "retornou"
    /\ UNCHANGED <<o_modo, ticker1, ticker2>>
    /\ UNCHANGED foraOrq

NextOrq ==
    \/ \E k \in 1..2 : OrqBuscar(k)
    \/ \E k \in 1..2 : OrqConverter(k)
    \/ \E k \in 1..2 : OrqCalcular(k)
    \/ OrqDetectar

SpecOrq == InitOrq /\ [][NextOrq]_vars

(***************************************************************************)
(* The program as a whole.                                                 *)
(***************************************************************************)
Init ==
    InitSup \/ InitVar \/ InitRf \/ InitAtv \/ InitBrl \/ InitPoup \/ InitSalvar \/ InitOrq
Next ==
    NextSup \/ NextVar \/ NextRf \/ NextAtv \/ NextBrl \/ NextPoup \/ NextSalvar \/ NextOrq
Spec == Init /\ [][Next]_vars

(***************************************************************************)
(* Properties of the rate-series retrieval.                                *)
(***************************************************************************)
\* fewer than 7 whole days have gone by since the entry of 'cdi' was saved
EntradaFresca == timestamps["cdi"] # None /\ agora - timestamps["cdi"] < 7

\* the persisted series of 'cdi' reaches the date of fim
EntradaCobre(fim) ==
    /\ arquivos["cdi"].existe
    /\ arquivos["cdi"].linhas[Len(arquivos["cdi"].linhas)].data >= DiaDe(fim)

\* C8 (as claimed): when obter_cdi is called twice in succession with the same
\* range and the cache entry is fresh at the second call, the second call
\* makes no network request and returns the series the first call returned.
C8_SegundaChamadaSemRede ==
    (cpc = "retornou" /\ repetida /\ anterior.estado = "ok" /\ cache_valido) =>
        (pedidos = <<>> /\ retorno = anterior)

\* C8 (amended): when obter_cdi is called again with the range of a call that
\* has just returned a series, and the cache entry is fresh and its latest
\* date is not earlier than the date of end, the second call makes no network
\* request and returns the series the first call returned.
C8_SegundaChamadaSemRedeSeCacheCobreFim ==
    [][(/\ cpc = "retornou" /\ retorno.estado = "ok"
        /\ EntradaFresca /\ EntradaCobre(data_fim)
        /\ ObterCdiDeNovo)
       => (cpc' = "retornou" /\ pedidos' = <<>> /\ retorno' = retorno)]_vars

\* a second call, days after the entry was saved, served by the cache alone
C8_Witness ==
    /\ cpc = "retornou" /\ repetida /\ anterior.estado = "ok"
    /\ cache_valido /\ agora > timestamps["cdi"]
    /\ EntradaCobre(data_fim)
    /\ pedidos = <<>> /\ retorno = anterior
    /\ Len(retorno.serie) >= 2

\* what one query of the whole range, not cut in segments, returns
NaoFatiada(ini, fim) == ParaDatetime(LinhasDe(serie_bcb, DiaDe(ini), DiaDe(fim)))

\* C9 (as claimed): for every range the paginated fetch returns the series
\* one unsegmented query of the range would return: every observation dated
\* in [start, end], the one dated end included, exactly once, in date order.
C9_PaginadaIgualNaoFatiada ==
    (cpc = "apos_busca" /\ ~falhou) => novos_dados = NaoFatiada(b_inicio, b_fim)

\* C10 (as claimed), for the calls that find a fresh cache entry: a successful
\* call of obter_cdi for [start, end] returns a value for every date in
\* [start, end] the upstream source has an observation for, also when start
\* is earlier than the earliest date of the entry.
C10_NenhumaObservacaoPerdida ==
    (cpc = "retornou" /\ retorno.estado = "ok" /\ cache_valido /\ ~falhou) =>
        \A d \in serie_bcb :
            (data_inicio <= Instante(d, 0) /\ Instante(d, 0) <= data_fim) =>
                \E k \in 1..Len(retorno.serie) : retorno.serie[k].data = Instante(d, 0)

(***************************************************************************)
(* Properties of obter_dados_ativo.                                        *)
(***************************************************************************)
EhMercado == ticker \in Tickers /\ ~ComecaComRF(ticker)
\* the call is over
AtivoTerminou == apc \in {"retornou", "erro"}
\* the number of remote queries, of sleeps
NumConsultas == Cardinality({k \in 1..Len(eventos) : eventos[k] = "consulta"})
NumEsperas == Cardinality({k \in 1..Len(eventos) : eventos[k] = "espera"})
\* the number of remote queries among the first k events
ConsultasAte(k) == Cardinality({j \in 1..k : eventos[j] = "consulta"})
\* the response was empty and raised nothing
RespostaVazia(r) == r.tipo = "dados" /\ r.linhas = <<>>

\* C11 (as claimed): for a market identifier, no remote query is made after
\* a query that succeeded with an empty response, and the fetch then ends
\* with the ValueError of the fetch layer.
C11_VazioEncerraABusca ==
    EhMercado =>
        \A k \in 1..Len(respostas) :
            (respostas[k].tipo = "dados" /\ respostas[k].linhas = <<>>) =>
                /\ k = Len(respostas)
                /\ apc \in {"esgotou", "erro"}

\* C12 (as claimed): when every attempt raised a network/timeout condition
\* and the text of the last one names it, the failure surfaced after the
\* attempts is the connectivity failure, as the text of the last error has it.
C12_FalhaDeConexaoPeloUltimoErro ==
    (/\ EhMercado /\ apc = "erro"
     /\ \A k \in 1..Len(respostas) : respostas[k].tipo = "excecao" /\ respostas[k].rede
     /\ Classificar(ultimo_erro.texto) = "conexao") =>
        (a_retorno.mensagem = "conexao" /\ a_retorno.mensagem = Classificar(ultimo_erro.texto))

\* C13: for a market identifier a call that ends without data, whether the
\* responses were empty or the queries raised, ends with the ValueError of
\* the fetch layer and with nothing else, and it ends so exactly when no
\* response held data; a call that returns returns a non-empty series.
C13_FalhaTipadaESucessoNaoVazio ==
    (EhMercado /\ AtivoTerminou) =>
        /\ apc = "erro" => a_retorno.estado = "ValueError"
        /\ apc = "erro" <=> (\A k \in 1..Len(respostas) : ~TemDados(respostas[k]))
        /\ apc = "retornou" =>
               (a_retorno.estado = "ok" /\ a_retorno.dados # <<>>
                /\ a_retorno.dados = respostas[Len(respostas)].linhas)

\* a failed call that met an empty response and an exception
C13_Witness ==
    /\ EhMercado /\ apc = "erro" /\ a_retorno.estado = "ValueError"
    /\ \E k \in 1..Len(respostas) : RespostaVazia(respostas[k])
    /\ \E k \in 1..Len(respostas) : respostas[k].tipo = "excecao"

\* a call that returned a series after an empty response
C13_WitnessSucesso ==
    /\ EhMercado /\ apc = "retornou" /\ Len(a_retorno.dados) = 2
    /\ RespostaVazia(respostas[1])

\* every sleep follows at once a query that raised, which was not the last
\* attempt, and once the call is over a query follows every sleep
EsperaSoEntreTentativas ==
    \A k \in 1..Len(eventos) :
        eventos[k] = "espera" =>
            /\ k > 1 /\ eventos[k - 1] = "consulta"
            /\ respostas[ConsultasAte(k)].tipo = "excecao"
            /\ ConsultasAte(k) < tentativas
            /\ k = Len(eventos) => apc = "laco"
            /\ k < Len(eventos) => eventos[k + 1] = "consulta"

\* C20: every call of obter_dados_ativo for a market identifier ends, after
\* at most 3 remote queries and at most 2 sleeps; a sleep happens only
\* between an attempt that raised and the next attempt, never after the last
\* attempt and never after a success.
C20_TerminaComNoMaximoTresConsultas ==
    /\ [](EhMercado => (/\ NumConsultas <= 3
                        /\ NumEsperas <= 2
                        /\ NumConsultas = Len(respostas)
                        /\ EsperaSoEntreTentativas))
    /\ <>AtivoTerminou

\* three queries that raised, two sleeps, and the call is over
C20_Witness ==
    /\ EhMercado /\ apc = "erro"
    /\ NumConsultas = 3 /\ NumEsperas = 2
    /\ eventos[Len(eventos)] = "consulta"

(***************************************************************************)
(* Properties of converter_usd_para_brl.                                   *)
(***************************************************************************)
\* the call is over
ConversaoTerminou == bpc \in {"retornou", "erro"}
\* the range query gave a rate series
HaSerieDeCambio ==
    fonte_cambio.historico.tipo = "dados" /\ ~CambioVazio(fonte_cambio.historico)
\* the query of the latest rate gives a rate
HaTaxaAtual == fonte_cambio.atual.tipo = "dados" /\ fonte_cambio.atual.taxa # NaN

\* C14: converter_usd_para_brl never fails: whatever the input and whatever
\* each query of the exchange-rate source meets (data, empty response,
\* exception), it returns a series with the dates and columns of the input,
\* and when neither a rate series nor a latest rate was obtained the series
\* returned is the input, unchanged.
C14_ConversaoNuncaFalha ==
    ConversaoTerminou =>
        /\ bpc = "retornou" /\ retorno_brl.estado = "ok"
        /\ retorno_brl.dados.datas = dados_usd.datas
        /\ DOMAIN retorno_brl.dados.colunas = DOMAIN dados_usd.colunas
        /\ (~HaSerieDeCambio /\ ~HaTaxaAtual) => retorno_brl.dados = dados_usd

\* both queries raised nothing and gave nothing: the input comes back
C14_Witness ==
    /\ bpc = "retornou" /\ Len(consultas) = 2
    /\ fonte_cambio.historico.tipo = "dados" /\ fonte_cambio.atual.tipo = "dados"
    /\ ~HaTaxaAtual
    /\ Len(dados_usd.datas) >= 2 /\ retorno_brl.dados = dados_usd

\* the second query raised: the input comes back
C14_WitnessExcecao ==
    /\ bpc = "retornou" /\ Len(consultas) = 2
    /\ fonte_cambio.atual.tipo = "excecao"
    /\ Len(dados_usd.datas) >= 2 /\ retorno_brl.dados = dados_usd

\* C15 (as claimed): whenever the range query gives no rate series, because
\* its response is empty or because it raises, the latest rate is asked for;
\* when that query yields a rate the series returned is the input with its
\* price columns times that rate, and the input comes back unmodified only
\* when that query fails too.
C15_QualquerProblemaRecorreATaxaAtual ==
    (ConversaoTerminou /\ ~HaSerieDeCambio) =>
        /\ consultas = <<"historico", "atual">>
        /\ HaTaxaAtual =>
               retorno_brl.dados = ConverterPorTaxaFixa(dados_usd, fonte_cambio.atual.taxa)
        /\ retorno_brl.modo = "usd" => ~HaTaxaAtual

\* the rate in force on date d: the rate of the latest observation of the
\* series dated d or earlier and, when there is none, of the earliest later one
TaxaVigente(taxa, d) ==
    LET ate == {e \in Datas : e <= d /\ taxa[e] # NaN}
        depois == {e \in Datas : e > d /\ taxa[e] # NaN} IN
    IF ate # {} THEN taxa[Max(ate)]
    ELSE IF depois # {} THEN taxa[Min(depois)]
    ELSE NaN

\* C16 (as claimed): with a non-empty rate series, the multiplier of every
\* date d of the input is defined and is the rate in force on d; the series
\* returned has the dates of the input, its price columns are the input's
\* times that multiplier and its other columns are the input's.
C16_MultiplicadorEATaxaVigente ==
    (ConversaoTerminou /\ HaSerieDeCambio) =>
        /\ \A k \in 1..Len(dados_usd.datas) :
               /\ TaxaAlinhada(cambio.taxa, dados_usd.datas)[k] # NaN
               /\ TaxaAlinhada(cambio.taxa, dados_usd.datas)[k]
                      = TaxaVigente(cambio.taxa, dados_usd.datas[k])
        /\ retorno_brl.dados =
               ConverterPorSerie(dados_usd,
                   [k \in 1..Len(dados_usd.datas) |->
                       TaxaVigente(cambio.taxa, dados_usd.datas[k])])

(***************************************************************************)
(* Properties of the paginated fetch under segment failures.               *)
(***************************************************************************)
\* the segments of the range [ini, fim], whatever each of them meets
RECURSIVE SegmentosDe(_, _)
SegmentosDe(ini, fim) ==
    IF ini >= fim THEN <<>>
    ELSE LET ate == IF ini + DiasFatia * UmDia < fim THEN ini + DiasFatia * UmDia ELSE fim IN
         <<[inicio |-> DiaDe(ini), fim |-> DiaDe(ate)]>> \o SegmentosDe(ate + UmDia, fim)

\* the k-th segment requested got a list of rows from the source
FatiaUsavel(k) == pedidos[k].desfecho \in {"ok", "ok_inseguro"}
\* the days the k-th segment got an observation for
DiasDaFatia(k) ==
    IF FatiaUsavel(k)
    THEN {d \in serie_bcb : pedidos[k].inicio <= d /\ d <= pedidos[k].fim}
    ELSE {}

\* C18: in the paginated fetch a segment that fails (transport error, body
\* that is not JSON, error-shaped response) does not stop the later segments
\* from being requested and does not remove the observations of the other
\* segments from the result; the fetch returns nothing, and a full fetch of
\* obter_cdi raises its ValueError, only if no segment got an observation.
C18_FalhaDeUmaFatiaNaoAfetaAsOutras ==
    (cpc \in {"apos_busca", "retornou"} /\ modo \in {"completo", "incremental"}) =>
        /\ [k \in 1..Len(pedidos) |-> [inicio |-> pedidos[k].inicio, fim |-> pedidos[k].fim]]
               = SegmentosDe(b_inicio, b_fim)
        /\ \A k \in 1..Len(pedidos) : \A d \in DiasDaFatia(k) :
               \E j \in 1..Len(novos_dados) :
                   novos_dados[j] = [data |-> Instante(d, 0), valor |-> Taxa(d)]
        /\ novos_dados = <<>> => \A k \in 1..Len(pedidos) : DiasDaFatia(k) = {}
        /\ (cpc = "retornou" /\ modo = "completo" /\ retorno.estado = "ValueError")
               => \A k \in 1..Len(pedidos) : DiasDaFatia(k) = {}

\* two segments, the first lost to a transport error, the second with
\* observations that the call returns
C18_Witness ==
    /\ cpc = "retornou" /\ modo = "completo" /\ retorno.estado = "ok"
    /\ Len(pedidos) = 2
    /\ pedidos[1].desfecho = "falha_transporte"
    /\ DiasDaFatia(2) # {}
    /\ {d \in serie_bcb : pedidos[1].inicio <= d /\ d <= pedidos[1].fim} # {}

\* every segment failed: the full fetch raises the ValueError of obter_cdi
C18_WitnessTodasFalharam ==
    /\ cpc = "retornou" /\ modo = "completo" /\ retorno.estado = "ValueError"
    /\ Len(pedidos) = 2
    /\ \A k \in 1..2 : ~FatiaUsavel(k)
    /\ serie_bcb # {}

(***************************************************************************)
(* Properties of obter_poupanca.                                           *)
(***************************************************************************)
\* the call is over
PoupancaTerminou == ppc \in {"retornou", "erro"}
\* the rows of the SELIC series fetched that lie in the period asked for
SelicNoPeriodo ==
    {k \in 1..Len(selic) : data_inicio <= selic[k].data /\ selic[k].data <= data_fim}
\* the TR fetched for the date dt, None when it has no observation of it
TrDaData(dt) ==
    IF \E j \in 1..Len(tr) : tr[j].data = dt
    THEN tr[CHOOSE j \in 1..Len(tr) : tr[j].data = dt].valor
    ELSE None

C17_WitnessLacuna ==
    /\ ppc = "retornou" /\ tr # <<>>
    /\ \E k \in 1..Len(poupanca.linhas) : poupanca.linhas[k].tr = 0
    /\ \E k \in 1..Len(poupanca.linhas) : poupanca.linhas[k].tr > 0

\* the SELIC fetch came back empty although the source has observations
C17_WitnessSelicVazia ==
    /\ ppc = "erro" /\ selic = <<>> /\ fontes[CodigoSelic] # {}

\* C19: for each date, the monthly accrual before TR is 0.5% exactly when
\* SELIC is strictly above 8.5% (at exactly 8.5% it is the other tier) and
\* otherwise 70% of SELIC divided by 12; the total is that plus TR divided by
\* 12, and the daily rate is the total divided by 30.
C19_RegraDaPoupanca ==
    ppc = "retornou" =>
        \A k \in 1..Len(poupanca.linhas) :
            LET l == poupanca.linhas[k] IN
            /\ l.selic > 85 => Igual(l.rendimento_mensal, Numero(1, 2))
            /\ l.selic <= 85 => Igual(l.rendimento_mensal, Numero(7 * l.selic, 1200))
            /\ l.rendimento_total.num * (l.rendimento_mensal.den * 120)
                   = (l.rendimento_mensal.num * 120 + l.tr * l.rendimento_mensal.den)
                         * l.rendimento_total.den
            /\ l.taxa_diaria.num * 30 * l.rendimento_total.den
                   = l.rendimento_total.num * l.taxa_diaria.den

\* rows below, at and above 8.5%, one of them with a TR
C19_Witness ==
    /\ ppc = "retornou"
    /\ \E k \in 1..Len(poupanca.linhas) : poupanca.linhas[k].selic = 85
    /\ \E k \in 1..Len(poupanca.linhas) : poupanca.linhas[k].selic = 90
    /\ \E k \in 1..Len(poupanca.linhas) : poupanca.linhas[k].selic = 80
    /\ \E k \in 1..Len(poupanca.linhas) : poupanca.linhas[k].tr > 0

\* C21 (as claimed): in obter_dados_ativo an attempt that raised is followed
\* by a sleep and another attempt only when what it raised is a
\* network/timeout condition; after any other exception there is no further
\* remote query and no sleep.
C21_SoErroDeRedeTentaDeNovo ==
    EhMercado =>
        \A k \in 1..Len(respostas) :
            (respostas[k].tipo = "excecao" /\ ~respostas[k].rede) =>
                /\ k = Len(respostas)
                /\ eventos[Len(eventos)] = "consulta"

(***************************************************************************)
(* Properties of the cache of obter_cdi.                                   *)
(***************************************************************************)
\* in a call that took the incremental branch and has fetched: the latest
\* day of the entry it loaded
UltimoDiaEmCache ==
    DiaDe(dados_cache[Len(dados_cache) - Len(novos_dados)].data)

\* C22 (as claimed): when obter_cdi finds a fresh entry whose latest date L is
\* earlier than end, every segment it requests lies in [L+1 day, end], and
\* every observation of the source dated in [L+1 day, end] is in the series
\* it appended to and in the series it returns, also when L+1 day is end.
C22_BuscaIncrementalTrazACauda ==
    (cpc = "retornou" /\ modo = "incremental" /\ ~falhou) =>
        /\ \A k \in 1..Len(pedidos) :
               UltimoDiaEmCache + 1 <= pedidos[k].inicio /\ pedidos[k].fim <= DiaDe(data_fim)
        /\ \A d \in serie_bcb :
               (UltimoDiaEmCache + 1 <= d /\ d <= DiaDe(data_fim)) =>
                   /\ \E j \in 1..Len(dados_cache) : dados_cache[j].data = Instante(d, 0)
                   /\ (retorno.estado = "ok" /\ data_inicio <= Instante(d, 0)) =>
                          \E j \in 1..Len(retorno.serie) : retorno.serie[j].data = Instante(d, 0)

\* the days an entry of the cache holds
DiasEmCache(arq) == {arq.linhas[k].data : k \in 1..Len(arq.linhas)}

\* C23 (as claimed): when obter_cdi finds an entry that is present but stale
\* and its fetch returns observations, the entry it saves holds every day the
\* entry held before.
C23_RenovacaoNaoPerdeDatas ==
    [][(/\ cpc = "apos_busca" /\ cpc' = "retornou"
        /\ ~cache_valido
        /\ arquivos["cdi"].existe
        /\ novos_dados # <<>>)
       => DiasEmCache(arquivos["cdi"]) \subseteq DiasEmCache(arquivos'["cdi"])]_vars

\* the rows of a sequence of rows
LinhasEm(seq) == {seq[k] : k \in 1..Len(seq)}
\* the step in which obter_cdi goes on after its fetch
AposABusca == cpc = "apos_busca" /\ cpc' = "retornou"

\* C24 (as claimed): obter_cdi writes the entry and its timestamp when its
\* fetch returned an observation, and leaves the file and the timestamp index
\* as they were when the fetch returned nothing or the call fails.
C24_CacheIntactoSeACallFalha ==
    [][/\ (AposABusca /\ novos_dados # <<>>) =>
              /\ arquivos'["cdi"].existe
              /\ timestamps'["cdi"] = agora
       /\ (AposABusca /\ (novos_dados = <<>> \/ retorno'.estado # "ok")) =>
              UNCHANGED <<arquivos, timestamps>>]_vars

\* C24 (amended): obter_cdi writes the entry and its timestamp exactly in the
\* step after a fetch that returned an observation, whether the call then
\* succeeds or fails; the rows written are those of the loaded entry (on the
\* incremental path) together with the fetched ones, and hold every row the
\* call returns; in every other step, and when the fetch returned nothing,
\* the file and the timestamp index are left as they were.
C24_CacheMudaSoAposBuscaComDados ==
    [][/\ (AposABusca /\ novos_dados # <<>>) =>
              /\ arquivos'["cdi"].existe
              /\ timestamps'["cdi"] = agora
              /\ LinhasEm(arquivos'["cdi"].linhas) =
                     LinhasEm(ParaCsv(novos_dados)) \cup
                     (IF modo = "incremental" THEN LinhasEm(arquivos["cdi"].linhas) ELSE {})
              /\ LinhasEm(ParaCsv(retorno'.serie)) \subseteq LinhasEm(arquivos'["cdi"].linhas)
       /\ ~(AposABusca /\ novos_dados # <<>>) =>
              UNCHANGED <<arquivos, timestamps>>]_vars
\* a call whose fetch brought rows, which saved them and then failed because
\* none of its rows is in the period asked for
C24_Witness ==
    /\ cpc = "retornou"
    /\ novos_dados # <<>>
    /\ retorno.estado = "IndexError"
    /\ arquivos["cdi"].existe
    /\ timestamps["cdi"] = agora
    /\ agora > 0

(***************************************************************************)
(* Properties of the pagination loop of _buscar_serie_bcb.                 *)
(***************************************************************************)
\* C25: the segments _buscar_serie_bcb requests lie in the range it was
\* called with, each spans at most DiasFatia days, each begins after the day
\* the one before it ended on (ascending, no day in two segments), each costs
\* one request or, when the verified one failed, two; and the loop ends: its
\* condition, data_atual < data_fim, comes to be false.
C25_FatiasEmOrdemELacoTermina ==
    /\ [](\A k \in 1..Len(pedidos) :
            /\ DiaDe(b_inicio) <= pedidos[k].inicio
            /\ pedidos[k].inicio <= pedidos[k].fim
            /\ pedidos[k].fim <= DiaDe(b_fim)
            /\ pedidos[k].fim - pedidos[k].inicio <= DiasFatia
            /\ k < Len(pedidos) => pedidos[k].fim < pedidos[k + 1].inicio
            /\ pedidos[k].tentativas \in 1..2
            /\ pedidos[k].tentativas = 2 =>
                   pedidos[k].desfecho \in {"ok_inseguro", "falha_transporte"})
    /\ [](cpc = "buscando" => <>(~HaFatia(data_atual, b_fim)))
\* a fetch that ended after two segments, one of them retried unverified
C25_Witness ==
    /\ cpc = "apos_busca"
    /\ Len(pedidos) >= 2
    /\ \E k \in 1..Len(pedidos) : pedidos[k].tentativas = 2
    /\ \E k \in 1..Len(pedidos) : pedidos[k].fim - pedidos[k].inicio = DiasFatia

(***************************************************************************)
(* Properties of the series the retrieval of rates produces.               *)
(***************************************************************************)
\* the dates of a series grow strictly: sorted, one row per date
Ascendente(seq) == \A k \in 1..(Len(seq) - 1) : seq[k].data < seq[k + 1].data

\* C26: the series _buscar_serie_bcb returns, the series obter_cdi holds and
\* returns, and the series it has persisted have strictly ascending dates,
\* whatever full and incremental fetches came before.
C26_SeriesEmOrdemEstrita ==
    /\ Ascendente(novos_dados)
    /\ Ascendente(dados_cache)
    /\ Ascendente(retorno.serie)
    /\ Ascendente(arquivos["cdi"].linhas)
\* an incremental fetch has added rows to an entry that held some, and the
\* merged series was saved and returned
C26_Witness ==
    /\ cpc = "retornou"
    /\ modo = "incremental"
    /\ novos_dados # <<>>
    /\ Len(dados_cache) > Len(novos_dados)
    /\ Len(arquivos["cdi"].linhas) = Len(dados_cache)
    /\ retorno.estado = "ok"
    /\ Len(retorno.serie) >= 2

(***************************************************************************)
(* Properties of _salvar_cache and of the timestamp index.                 *)
(***************************************************************************)
\* where in the history process p made the step passo
Pos(p, passo) ==
    CHOOSE k \in 1..Len(historia) : historia[k] = [proc |-> p, passo |-> passo]
\* both processes have made their call of _salvar_cache and returned from it
AmbosSalvaram ==
    /\ concorrentes
    /\ \A p \in Processos : spc[p] = "ocioso" /\ restantes[p] = 0
\* the index has no entry for the name process p saved
SemAtualizacaoDe(p) == timestamps[s_nome[p]] = None

\* C27: two processes have each run _salvar_cache once, for different names,
\* on an index that was empty. The index lacks the timestamp of one of them
\* exactly when the other read the index before that one wrote it and wrote
\* its own copy afterwards; such an interleaving exists (C27_Witness).
C27_AtualizacaoPerdidaSeIntercalam ==
    (AmbosSalvaram /\ s_nome[1] # s_nome[2]) =>
        \A p \in Processos :
            LET q == 3 - p IN
            SemAtualizacaoDe(p) <=>
                /\ Pos(q, "ler") < Pos(p, "gravar")
                /\ Pos(p, "gravar") < Pos(q, "gravar")
\* both calls returned, and the index lacks the update one of them made
C27_Witness ==
    /\ AmbosSalvaram
    /\ s_nome[1] # s_nome[2]
    /\ \E p \in Processos : SemAtualizacaoDe(p) /\ ~SemAtualizacaoDe(3 - p)
    /\ \A p \in Processos : arquivos[s_nome[p]].existe

\* C29: with one process, a call _salvar_cache(n, df) leaves the file of every
\* other name as it was, and once it has returned every name holds the
\* timestamp of the last call made for it (that of n is now, the others are
\* unchanged); _cache_valido(n) is then true as long as fewer than max_dias
\* whole days have gone by since that call.
C29_SalvarSoMexeNoNome ==
    /\ [][~concorrentes =>
             \A n \in NomesDeCache :
                 n # s_nome'[1] => arquivos'[n] = arquivos[n]]_vars
    /\ []((~concorrentes /\ spc[1] = "ocioso") =>
             \A n \in NomesDeCache :
                 /\ timestamps[n] = gravado_em[n]
                 /\ gravado_em[n] # None =>
                        /\ arquivos[n].existe
                        /\ CacheValido(n) <=> (agora - gravado_em[n] < max_dias))
\* one process saved two names at different times: the entry of the first has
\* gone stale, that of the second is still valid
C29_Witness ==
    /\ ~concorrentes
    /\ spc[1] = "ocioso"
    /\ \E n, m \in NomesDeCache :
           /\ n # m
           /\ gravado_em[n] # None /\ gravado_em[m] # None
           /\ arquivos[n].existe /\ arquivos[m].existe
           /\ ~CacheValido(n) /\ CacheValido(m)

(***************************************************************************)
(* Properties of plotar_comparacao and plotar_analise_janelas.             *)
(***************************************************************************)
\* the fetch of instrument k succeeded before step j
BuscouAntes(k, j) ==
    \E h \in 1..(j - 1) : passos[h] = Passo("buscar", k, "ok")

\* C28: in both functions a conversion of an instrument comes after the
\* successful fetch of that instrument and only for an identifier that ends
\* with '-USD' and does not begin with 'RF-'; a performance computation comes
\* after the successful fetch of both instruments; a failed fetch is the last
\* step made.
C28_PassosEmOrdem ==
    \A j \in 1..Len(passos) :
        /\ passos[j].passo = "converter" =>
               /\ BuscouAntes(passos[j].ativo, j)
               /\ TerminaComUSD(TickerDe(passos[j].ativo))
               /\ ~ComecaComRF(TickerDe(passos[j].ativo))
        /\ passos[j].passo \in {"calcular", "detectar"} =>
               BuscouAntes(1, j) /\ BuscouAntes(2, j)
        /\ (passos[j].passo = "buscar" /\ passos[j].desfecho # "ok") =>
               (j = Len(passos) /\ opc = "erro")
\* a run that fetched a fixed-income instrument and a USD-quoted one,
\* converted the second only and went on to the detection
C28_Witness ==
    /\ opc = "retornou"
    /\ ComecaComRF(ticker1) /\ TerminaComUSD(ticker2)
    /\ \E j \in 1..Len(passos) : passos[j] = Passo("converter", 2, "ok")
    /\ passos[Len(passos)].passo = "detectar"
\* a run whose second fetch failed after the first instrument was converted
C28_WitnessFalha ==
    /\ opc = "erro"
    /\ Len(passos) = 3
    /\ passos[2].passo = "converter"
    /\ passos[3].passo = "buscar"

====
